---- MODULE Spec2Model ----
(***************************************************************************)
(* Model of VulkanBasic: the vk::Deleter ownership wrapper (deleter.h) and *)
(* the BasicApp life cycle of main.cpp: initVulkan, mainLoop, drawFrame,   *)
(* recreateSwapChain and the destruction of the BasicApp members.          *)
(*                                                                         *)
(* A Vulkan object is a record [k, i, g]: k names the Deleter that the     *)
(* handle was bound into, i is the index in a vector of Deleters and g is  *)
(* the number of swap chains created so far when the object was created.   *)
(***************************************************************************)
EXTENDS Integers, Sequences, FiniteSets, TLC

\* Bounds of the model
MaxBuilds == 2          \* swap chains created in one run (the first one and the rebuilds)
MaxImages == 3          \* largest image count vkGetSwapchainImagesKHR hands out

Handle(k, i, g) == [k |-> k, i |-> i, g |-> g]

VK_NULL_HANDLE == Handle("null", 0, 0)

Max(a, b) == IF a >= b THEN a ELSE b

Range(s) == { s[j] : j \in 1..Len(s) }

(***************************************************************************)
(* The members of BasicApp that own Vulkan objects, in declaration order.  *)
(* C++ destroys them in the reverse of this order.                         *)
(***************************************************************************)
MembersDeviceLate ==
    << "mInstance", "mSurface", "mSwapChain", "mDevice", "mSwapChainImageViews",
       "mRenderPass", "mDescriptorSetLayout", "mDescriptorPool",
       "mPipelineLayout", "mGraphicsPipeline", "mSwapChainFramebuffers",
       "mVertexBuffer", "mVertexBufferMemory", "mIndexBuffer", "mIndexBufferMemory",
       "mUniformStagingBuffer", "mUniformStagingBufferMemory",
       "mUniformBuffer", "mUniformBufferMemory",
       "mTextureImage", "mTextureImageMemory", "mTextureImageView", "mTextureSampler",
       "mCommandPool", "mImageAvailableSemaphore", "mRenderFinishedSemaphore",
       "mCallback" >>

Members ==
    << "mInstance", "mSurface", "mDevice", "mSwapChain", "mSwapChainImageViews",
       "mRenderPass", "mDescriptorSetLayout", "mDescriptorPool",
       "mPipelineLayout", "mGraphicsPipeline", "mSwapChainFramebuffers",
       "mVertexBuffer", "mVertexBufferMemory", "mIndexBuffer", "mIndexBufferMemory",
       "mUniformStagingBuffer", "mUniformStagingBufferMemory",
       "mUniformBuffer", "mUniformBufferMemory",
       "mTextureImage", "mTextureImageMemory", "mTextureImageView", "mTextureSampler",
       "mCommandPool", "mImageAvailableSemaphore", "mRenderFinishedSemaphore",
       "mCallback" >>

VectorMembers == { "mSwapChainImageViews", "mSwapChainFramebuffers" }

ScalarMembers == Range(Members) \ VectorMembers

\* The Deleter constructor used for each wrapper: which parent its release
\* function reads when it runs.
ParentOf(k) ==
    IF k \in { "mInstance", "mDevice", "mWindow", "image", "null" } THEN "none"
    ELSE IF k \in { "mSurface", "mCallback" } THEN "mInstance"
    ELSE "mDevice"

InstanceH == Handle("mInstance", 0, 0)
DeviceH == Handle("mDevice", 0, 0)

ParentHandle(h) ==
    IF ParentOf(h.k) = "mInstance" THEN InstanceH
    ELSE IF ParentOf(h.k) = "mDevice" THEN DeviceH
    ELSE VK_NULL_HANDLE

VARIABLES
    pc,                 \* position of the control thread
    caller,             \* who runs the build steps: "init", "resize", "acquire", "present"; else "none"
    mEnableValidationLayers,
    windowAlive,        \* between glfwCreateWindow and glfwDestroyWindow
    obj,                \* mObject of every scalar Deleter member
    mSwapChainImages,
    mSwapChainImageViews, viewsCap,
    mSwapChainFramebuffers, fbsCap,
    mCommandBuffers,
    allocated,          \* the command buffers allocated from mCommandPool and not freed
    signaled,           \* the semaphores with a signal that no wait has consumed
    gen,                \* number of swap chains created so far
    live,               \* the objects that exist on the Vulkan side
    relCount,           \* per handle ever bound into a Deleter: calls of its release function
    refs,               \* per object: the objects named in its create info
    inFlight,           \* queues that may still execute submitted work
    shouldClose, lastEvent,
    acqRes, imageIndex, submitted, presented, presRes, drawRebuilds,
    sync,               \* the calls of the running drawFrame with their semaphores
    steps,              \* the steps of the recreateSwapChain of this loop iteration
    exitCode,
    stderr,             \* the lines main has written to std::cerr
    destroyed,          \* what ~BasicApp destroyed, in that order
    unit                \* a class or function of the program run on its own

vars == << pc, caller, mEnableValidationLayers, windowAlive, obj, mSwapChainImages,
           mSwapChainImageViews, viewsCap, mSwapChainFramebuffers, fbsCap,
           mCommandBuffers, allocated, signaled, gen, live, relCount, refs, inFlight, shouldClose,
           lastEvent, acqRes, imageIndex, submitted, presented, presRes,
           drawRebuilds, sync, steps, exitCode, stderr, destroyed, unit >>

\* the state of BasicApp
appVars == << pc, caller, mEnableValidationLayers, windowAlive, obj, mSwapChainImages,
              mSwapChainImageViews, viewsCap, mSwapChainFramebuffers, fbsCap,
              mCommandBuffers, allocated, signaled, gen, live, relCount, refs, inFlight, shouldClose,
              lastEvent, acqRes, imageIndex, submitted, presented, presRes,
              drawRebuilds, sync, steps, exitCode, stderr, destroyed >>

frameVars == << acqRes, imageIndex, submitted, presented, presRes, drawRebuilds, sync >>
vecVars == << mSwapChainImageViews, viewsCap, mSwapChainFramebuffers, fbsCap >>
winVars == << shouldClose, lastEvent >>

NoCmd == [fb |-> VK_NULL_HANDLE, pipe |-> VK_NULL_HANDLE, rp |-> VK_NULL_HANDLE, g |-> 0]

\* BasicApp runs as a whole: no part of it is run on its own
NoUnit == [fn |-> "none"]

\* BasicApp after its construction
Constructed ==
    /\ pc = "initWindow"
    /\ caller = "init"
    /\ mEnableValidationLayers \in BOOLEAN
    /\ windowAlive = FALSE
    /\ obj = [m \in ScalarMembers |-> VK_NULL_HANDLE]
    /\ mSwapChainImages = << >>
    /\ mSwapChainImageViews = << >> /\ viewsCap = 0
    /\ mSwapChainFramebuffers = << >> /\ fbsCap = 0
    /\ mCommandBuffers = << >>
    /\ allocated = {}
    /\ signaled = {}
    /\ gen = 0
    /\ live = {}
    /\ relCount = << >>
    /\ refs = << >>
    /\ inFlight = {}
    /\ shouldClose = FALSE /\ lastEvent = "none"
    /\ acqRes = "none" /\ imageIndex = 0 /\ submitted = NoCmd
    /\ presented = 0 /\ presRes = "none" /\ drawRebuilds = 0
    /\ sync = << >>
    /\ steps = << >>
    /\ exitCode = -1
    /\ stderr = << >>
    /\ destroyed = << >>

Init == Constructed /\ unit = NoUnit

(***************************************************************************)
(* Deleter::cleanup on the Vulkan side: the release function is called     *)
(* with every handle of S.                                                 *)
(***************************************************************************)
Rel(rc, S) == [h \in DOMAIN rc |-> IF h \in S THEN rc[h] + 1 ELSE rc[h]]

\* A creation call wrote the handles of S through Deleter::operator&
AddNew(rc, S) == [h \in (DOMAIN rc) \cup S |-> IF h \in DOMAIN rc THEN rc[h] ELSE 0]

(***************************************************************************)
(* Control flow: initVulkan and recreateSwapChain call the build steps in  *)
(* a fixed order.                                                          *)
(***************************************************************************)
InitOrder ==
    << "createInstance", "setupDebugCallback", "createSurface", "pickPhysicalDevice",
       "createLogicalDevice", "createSwapChain", "createImageViews", "createRenderPass",
       "createDescriptorSetLayout", "createGraphicsPipeline", "createFramebuffers",
       "createCommandPool", "createTextureImage", "createTextureImageView",
       "createTextureSampler", "createVertexBuffer", "createIndexBuffer",
       "createUniformBuffer", "createDescriptorPool", "createDescriptorSet",
       "createCommandBuffers", "createSemaphores" >>

RebuildOrderNoWait ==
    << "createSwapChain", "createImageViews", "createRenderPass",
       "createGraphicsPipeline", "createFramebuffers", "createCommandBuffers" >>

RebuildOrder ==
    << "vkDeviceWaitIdle", "createSwapChain", "createImageViews", "createRenderPass",
       "createGraphicsPipeline", "createFramebuffers", "createCommandBuffers" >>

IndexOf(s, x) == CHOOSE j \in 1..Len(s) : s[j] = x

\* where the caller of recreateSwapChain continues
ReturnTo(c) == IF c = "resize" THEN "glfwPollEvents" ELSE "mainLoop"

AfterCutShort(p, c) ==
    LET order == IF c = "init" THEN InitOrder ELSE RebuildOrder
        j == IndexOf(order, p)
    IN IF c = "resize" /\ p = "createSwapChain" THEN ReturnTo(c)
       ELSE IF j < Len(order) THEN order[j + 1]
       ELSE IF c = "init" THEN "mainLoop" ELSE ReturnTo(c)

\* the statement that follows build step p
After(p, c) ==
    LET order == IF c = "init" THEN InitOrder ELSE RebuildOrder
        j == IndexOf(order, p)
    IN IF j < Len(order) THEN order[j + 1]
       ELSE IF c = "init" THEN "mainLoop" ELSE ReturnTo(c)

\* a build step appends its name to the trace of the running rebuild
Stepped(p) == IF caller = "init" THEN steps ELSE Append(steps, p)

(***************************************************************************)
(* e.what() of the std::runtime_error a function can throw, its own and    *)
(* those of the helpers it calls.                                          *)
(***************************************************************************)
BufferErrors ==
    { "Failed to create buffer object.", "Failed to allocate buffer memory.",
      "Failed to find a suitable memory type." }

What(f) ==
    CASE f = "createInstance" ->
            { "Failed to create VkInstance." } \cup
            IF mEnableValidationLayers
            THEN { "One or more validation layers specified by this application are not supported." }
            ELSE { }
      [] f = "setupDebugCallback" -> { "Failed to setup debug callback." }
      [] f = "createSurface" -> { "Failed to create window surface." }
      [] f = "pickPhysicalDevice" ->
            { "Failed to find a GPU with Vulkan support.", "Failed to find a suitable GPU." }
      [] f = "createLogicalDevice" -> { "Failed to create logical device." }
      [] f = "createSwapChain" -> { "Failed to create swap chain." }
      [] f \in { "createImageViews", "createTextureImageView" } ->
            { "Failed to create texture image view." }
      [] f = "createRenderPass" -> { "Failed to create render pass." }
      [] f = "createDescriptorSetLayout" ->
            { "Failed to create descriptor set layout object." }
      [] f = "createGraphicsPipeline" ->
            { "Failed to open file shaders/vert.spv", "Failed to open file shaders/frag.spv",
              "Failed to create shader module.", "Failed to created pipeline layout.",
              "Failed to create graphics pipeline." }
      [] f = "createFramebuffers" -> { "Failed to create framebuffer." }
      [] f = "createCommandPool" -> { "Failed to create command pool." }
      [] f = "createTextureImage" ->
            { "Failed to load STB image file.", "Failed to create image.",
              "Failed to allocation image memory.", "Failed to find a suitable memory type." }
      [] f = "createTextureSampler" -> { "Failed to create texture sampler." }
      [] f \in { "createVertexBuffer", "createIndexBuffer", "createUniformBuffer" } ->
            BufferErrors
      [] f = "createDescriptorPool" -> { "Failed to create descriptor pool." }
      [] f = "createDescriptorSet" -> { "Failed to allocated descriptor set." }
      [] f = "createCommandBuffers" ->
            { "Failed to allocate command buffers.", "Failed to record command buffer." }
      [] f = "createSemaphores" -> { "Failed to create semaphores." }
      [] f = "vkAcquireNextImageKHR" -> { "Failed to acquire swap chain image." }
      [] f = "vkQueueSubmit" -> { "Failed to submit draw command buffer." }
      [] f = "vkQueuePresentKHR" -> { "Failed to present swap chain image." }

UnwindRetries(target, a, p) ==
    /\ pc' = IF target = "catch" THEN pc ELSE target
    /\ caller' = caller /\ steps' = steps
    /\ shouldClose' = FALSE /\ lastEvent' = "none"
    /\ acqRes' = a /\ presRes' = p
    /\ imageIndex' = 0 /\ submitted' = NoCmd /\ presented' = 0 /\ drawRebuilds' = 0
    /\ sync' = << >>
    /\ stderr' = stderr

(***************************************************************************)
(* A throw unwinds the stack to the handler in main (target "catch"); a    *)
(* crash ends the process (target "crashed").  The locals of drawFrame and *)
(* the record of the running rebuild are gone and the loop test is not     *)
(* evaluated again; a and p keep the result that made drawFrame throw.     *)
(* The handler writes e.what() and a line end to std::cerr.                 *)
(***************************************************************************)
Unwind(target, a, p) ==
    /\ pc' = target
    /\ caller' = "none" /\ steps' = << >>
    /\ shouldClose' = FALSE /\ lastEvent' = "none"
    /\ acqRes' = a /\ presRes' = p
    /\ imageIndex' = 0 /\ submitted' = NoCmd /\ presented' = 0 /\ drawRebuilds' = 0
    /\ sync' = << >>
    /\ \E w \in What(pc) :
          stderr' = IF target = "catch" THEN Append(stderr, w) ELSE stderr

(***************************************************************************)
(* How a build step ends: "next" continues with the statement after it     *)
(* (the return of recreateSwapChain to drawFrame counts one rebuild of the *)
(* frame); "catch" and "crashed" unwind.                                   *)
(***************************************************************************)
Flow(target) ==
    IF target = "next"
    THEN /\ pc' = After(pc, caller)
         /\ steps' = Stepped(pc)
         /\ drawRebuilds' = IF After(pc, caller) = ReturnTo(caller)
                                 /\ caller \in { "acquire", "present" }
                            THEN drawRebuilds + 1 ELSE drawRebuilds
         /\ UNCHANGED << caller, winVars, acqRes, imageIndex, submitted, presented, presRes,
                         sync, stderr >>
    ELSE Unwind(target, "none", "none")

initWindow ==
    /\ pc = "initWindow"
    /\ windowAlive' = TRUE
    /\ pc' = InitOrder[1]
    /\ UNCHANGED << caller, unit, mEnableValidationLayers, stderr, obj, mSwapChainImages, vecVars,
                    mCommandBuffers, allocated, signaled, gen, live, relCount, refs, inFlight, winVars,
                    frameVars, steps, exitCode, destroyed >>

(***************************************************************************)
(* The init steps that bind Deleters which no rebuild touches.  Each entry *)
(* lists the creation calls of the function in program order; local marks  *)
(* a Deleter that is a local variable of the function.                     *)
(***************************************************************************)
Op(m, i, local) == [m |-> m, i |-> i, local |-> local]

StaticOps(f) ==
    CASE f = "createInstance" -> << Op("mInstance", 0, FALSE) >>
      [] f = "setupDebugCallback" ->
            IF mEnableValidationLayers THEN << Op("mCallback", 0, FALSE) >> ELSE << >>
      [] f = "createSurface" -> << Op("mSurface", 0, FALSE) >>
      [] f = "pickPhysicalDevice" -> << >>
      [] f = "createLogicalDevice" -> << Op("mDevice", 0, FALSE) >>
      [] f = "createDescriptorSetLayout" -> << Op("mDescriptorSetLayout", 0, FALSE) >>
      [] f = "createCommandPool" -> << Op("mCommandPool", 0, FALSE) >>
      [] f = "createTextureImage" ->
            << Op("stagingImage", 0, TRUE), Op("stagingImageMemory", 0, TRUE),
               Op("mTextureImage", 0, FALSE), Op("mTextureImageMemory", 0, FALSE) >>
      [] f = "createTextureImageView" -> << Op("mTextureImageView", 0, FALSE) >>
      [] f = "createTextureSampler" -> << Op("mTextureSampler", 0, FALSE) >>
      [] f = "createVertexBuffer" ->
            << Op("stagingBuffer", 1, TRUE), Op("stagingBufferMemory", 1, TRUE),
               Op("mVertexBuffer", 0, FALSE), Op("mVertexBufferMemory", 0, FALSE) >>
      [] f = "createIndexBuffer" ->
            << Op("stagingBuffer", 2, TRUE), Op("stagingBufferMemory", 2, TRUE),
               Op("mIndexBuffer", 0, FALSE), Op("mIndexBufferMemory", 0, FALSE) >>
      [] f = "createUniformBuffer" ->
            << Op("mUniformStagingBuffer", 0, FALSE), Op("mUniformStagingBufferMemory", 0, FALSE),
               Op("mUniformBuffer", 0, FALSE), Op("mUniformBufferMemory", 0, FALSE) >>
      [] f = "createDescriptorPool" -> << Op("mDescriptorPool", 0, FALSE) >>
      [] f = "createDescriptorSet" -> << >>
      [] f = "createSemaphores" ->
            << Op("mImageAvailableSemaphore", 0, FALSE), Op("mRenderFinishedSemaphore", 0, FALSE) >>

StaticFns ==
    { "createInstance", "setupDebugCallback", "createSurface", "pickPhysicalDevice",
      "createLogicalDevice", "createDescriptorSetLayout", "createCommandPool",
      "createTextureImage", "createTextureImageView", "createTextureSampler",
      "createVertexBuffer", "createIndexBuffer", "createUniformBuffer",
      "createDescriptorPool", "createDescriptorSet", "createSemaphores" }

\* the functions that can throw before their first creation call
ThrowsAtEntry(f) ==
    \/ f = "createInstance" /\ mEnableValidationLayers
    \/ f \in { "pickPhysicalDevice", "createTextureImage", "createDescriptorSet" }

(***************************************************************************)
(* One init function.  fail = 0: every creation call succeeds; fail = j:   *)
(* call j fails and the function throws; fail = Len + 1: the function      *)
(* throws at its entry.  A call through operator& first releases what the  *)
(* Deleter holds; a failed call leaves it unbound.  The local Deleters are *)
(* destroyed when the function is left.                                    *)
(***************************************************************************)
CreateStatic ==
    /\ pc \in StaticFns
    /\ LET ops == StaticOps(pc) IN
       \E fail \in 0..(Len(ops) + 1) :
         /\ (fail = Len(ops) + 1) => ThrowsAtEntry(pc)
         /\ LET tried == IF fail = 0 THEN 1..Len(ops)
                         ELSE IF fail = Len(ops) + 1 THEN {} ELSE 1..fail
                ok == IF fail = 0 THEN 1..Len(ops)
                      ELSE IF fail = Len(ops) + 1 THEN {} ELSE 1..(fail - 1)
                H(j) == Handle(ops[j].m, ops[j].i, gen)
                made == { H(j) : j \in ok }
                locals == { H(j) : j \in { x \in ok : ops[x].local } }
                olds == { obj[ops[j].m] : j \in { x \in tried : ~ops[x].local } }
                            \ { VK_NULL_HANDLE }
            IN /\ obj' = [m \in ScalarMembers |->
                            IF \E j \in tried : ~ops[j].local /\ ops[j].m = m
                            THEN IF \E j \in ok : ops[j].m = m
                                 THEN Handle(m, 0, gen) ELSE VK_NULL_HANDLE
                            ELSE obj[m]]
               /\ relCount' = Rel(AddNew(Rel(relCount, olds), made), locals)
               /\ live' = (live \ olds) \cup (made \ locals)
               /\ Flow(IF fail = 0 THEN "next" ELSE "catch")
    /\ UNCHANGED << unit, mEnableValidationLayers, windowAlive, mSwapChainImages,
                    vecVars, mCommandBuffers, allocated, signaled, gen, refs, inFlight, exitCode, destroyed >>


(***************************************************************************)
(* std::vector<Deleter>::resize(n, unbound Deleter).  Deleter has only the *)
(* implicit copy constructor, so a reallocation copies the elements into   *)
(* the new storage and then destroys the old elements, which releases      *)
(* their handles while the copies keep them.  The capacity after a         *)
(* reallocation is the library's choice.                                   *)
(***************************************************************************)
ResizeVecNoShrink(vec, n) ==
    IF n <= Len(vec) THEN vec
    ELSE vec \o [j \in 1..(n - Len(vec)) |-> VK_NULL_HANDLE]

ResizeVec(vec, n) ==
    IF n <= Len(vec) THEN SubSeq(vec, 1, n)
    ELSE vec \o [j \in 1..(n - Len(vec)) |-> VK_NULL_HANDLE]

ResizeReleased(vec, cap, n) ==
    IF n < Len(vec) THEN { vec[j] : j \in (n + 1)..Len(vec) } \ { VK_NULL_HANDLE }
    ELSE IF n > cap THEN Range(vec) \ { VK_NULL_HANDLE }
    ELSE {}

\* the capacity after resize(n): unchanged without a reallocation, else the
\* exact size or the old capacity grown by half or doubled
ResizeCaps(cap, n) ==
    IF n <= cap THEN { cap } ELSE { n, Max(n, cap + (cap \div 2)), Max(n, 2 * cap) }

\* the same library resizes the second vector, of the same size and capacity
\* as the first was, to the same size: it chooses the same capacity
SameCaps(cap, n, other) == IF n <= cap THEN { cap } ELSE { other }

MergeRefs(rf, F) ==
    [x \in (DOMAIN rf) \cup (DOMAIN F) |-> IF x \in DOMAIN F THEN F[x] ELSE rf[x]]

(***************************************************************************)
(* createSwapChain: the new chain is created with the held handle as       *)
(* oldSwapchain; only when that call succeeded *&mSwapChain releases the   *)
(* previous chain and stores the new one, and the images are fetched.      *)
(***************************************************************************)
OldSwapchainNull == VK_NULL_HANDLE

\* VkSwapchainKHR oldSwapChain = mSwapChain; createInfo.oldSwapchain = oldSwapChain
OldSwapchain == obj["mSwapChain"]

createSwapChain ==
    /\ pc = "createSwapChain"
    /\ gen < MaxBuilds
    /\ \E ok \in BOOLEAN, n \in 1..MaxImages :
         IF ok
         THEN LET new == Handle("mSwapChain", 0, gen + 1)
                  olds == { obj["mSwapChain"] } \ { VK_NULL_HANDLE }
              IN /\ obj' = [obj EXCEPT !["mSwapChain"] = new]
                 /\ relCount' = AddNew(Rel(relCount, olds), { new })
                 /\ live' = (live \ olds) \cup { new }
                 /\ refs' = MergeRefs(refs, [h \in { new } |-> { OldSwapchain }])
                 /\ mSwapChainImages' = [j \in 1..n |-> Handle("image", j, gen + 1)]
                 /\ gen' = gen + 1
                 /\ Flow("next")
         ELSE /\ n = 1
              /\ Flow("catch")
              /\ UNCHANGED << obj, relCount, live, refs, mSwapChainImages, gen >>
    /\ UNCHANGED << unit, mEnableValidationLayers, windowAlive, vecVars,
                    mCommandBuffers, allocated, signaled, inFlight, exitCode, destroyed >>

(***************************************************************************)
(* A release function called with a handle whose object is already         *)
(* destroyed is undefined behaviour.  The outcomes modelled: the call is   *)
(* ignored, the process crashes, or the stale handle value has been reused *)
(* by an object of the same type created after it died and the call        *)
(* destroys that object.  In the binding loop over a vector the stale      *)
(* handle at position j can only name an object bound at a position i < j; *)
(* one such hit per loop is modelled.                                      *)
(***************************************************************************)
StalePositions(v1, tried, alive) ==
    { j \in tried : v1[j] /= VK_NULL_HANDLE /\ v1[j] \notin alive }

AliasCandidates(stale, ok) == { i \in ok : \E j \in stale : j > i }

AliasHits(stale, ok) == { {} } \cup { { i } : i \in AliasCandidates(stale, ok) }

(***************************************************************************)
(* createImageViews: resize the vector to the image count, then bind one   *)
(* view per image through createImageView.  fail = j: the creation of view *)
(* j fails (its Deleter was already cleaned by operator&) and the function *)
(* throws.                                                                 *)
(***************************************************************************)
createImageViews ==
    /\ pc = "createImageViews"
    /\ LET n == Len(mSwapChainImages)
           r1 == ResizeReleased(mSwapChainImageViews, viewsCap, n)
           v1 == ResizeVec(mSwapChainImageViews, n)
           New(j) == Handle("mSwapChainImageViews", j, gen)
       IN \E cap \in ResizeCaps(viewsCap, n), fail \in 0..n :
            LET tried == IF fail = 0 THEN 1..n ELSE 1..fail
                ok == IF fail = 0 THEN 1..n ELSE 1..(fail - 1)
                r2 == { v1[j] : j \in tried } \ { VK_NULL_HANDLE }
                stale == StalePositions(v1, tried, live \ r1)
                made == { New(j) : j \in ok }
            IN \/ \E killed \in AliasHits(stale, ok) :
                    /\ mSwapChainImageViews' =
                          [j \in 1..Len(v1) |-> IF j \in ok THEN New(j)
                                          ELSE IF j \in tried THEN VK_NULL_HANDLE ELSE v1[j]]
                    /\ viewsCap' = cap
                    /\ relCount' = AddNew(Rel(Rel(relCount, r1), r2), made)
                    /\ live' = ((live \ (r1 \cup r2)) \cup made) \ { New(i) : i \in killed }
                    /\ refs' = MergeRefs(refs, [h \in made |-> { mSwapChainImages[h.i] }])
                    /\ Flow(IF fail = 0 THEN "next" ELSE "catch")
               \/ /\ fail = 0 /\ stale /= {}
                  /\ mSwapChainImageViews' = v1
                  /\ viewsCap' = cap
                  /\ relCount' = Rel(Rel(relCount, r1), { v1[j] : j \in stale })
                  /\ live' = live \ r1
                  /\ refs' = refs
                  /\ Flow("crashed")
    /\ UNCHANGED << unit, mEnableValidationLayers, windowAlive, obj, mSwapChainImages,
                    mSwapChainFramebuffers, fbsCap, mCommandBuffers, allocated, signaled, gen, inFlight,
                    exitCode, destroyed >>

\* createRenderPass: one creation call into mRenderPass
createRenderPass ==
    /\ pc = "createRenderPass"
    /\ \E ok \in BOOLEAN :
         LET new == Handle("mRenderPass", 0, gen)
             olds == { obj["mRenderPass"] } \ { VK_NULL_HANDLE }
         IN /\ obj' = [obj EXCEPT !["mRenderPass"] = IF ok THEN new ELSE VK_NULL_HANDLE]
            /\ relCount' = IF ok THEN AddNew(Rel(relCount, olds), { new })
                           ELSE Rel(relCount, olds)
            /\ live' = (live \ olds) \cup (IF ok THEN { new } ELSE {})
            /\ Flow(IF ok THEN "next" ELSE "catch")
    /\ UNCHANGED << unit, mEnableValidationLayers, windowAlive, mSwapChainImages,
                    vecVars, mCommandBuffers, allocated, signaled, gen, refs, inFlight, exitCode, destroyed >>

(***************************************************************************)
(* createGraphicsPipeline: read the two shader files, create the two local *)
(* shader modules, then the pipeline layout and the pipeline.  The local   *)
(* shader modules are released when the function is left.                  *)
(***************************************************************************)
PipelineStages == << "readFile", "vertShaderModule", "fragShaderModule",
                     "mPipelineLayout", "mGraphicsPipeline" >>

createGraphicsPipeline ==
    /\ pc = "createGraphicsPipeline"
    /\ \E fail \in 0..Len(PipelineStages) :
         LET done(x) == fail = 0 \/ IndexOf(PipelineStages, x) < fail
             tried(x) == fail = 0 \/ IndexOf(PipelineStages, x) <= fail
             vert == Handle("vertShaderModule", 0, gen)
             frag == Handle("fragShaderModule", 0, gen)
             layout == Handle("mPipelineLayout", 0, gen)
             pipeline == Handle("mGraphicsPipeline", 0, gen)
             locals == (IF done("vertShaderModule") THEN { vert } ELSE {})
                          \cup (IF done("fragShaderModule") THEN { frag } ELSE {})
             made == (IF done("mPipelineLayout") THEN { layout } ELSE {})
                        \cup (IF done("mGraphicsPipeline") THEN { pipeline } ELSE {})
             olds == ((IF tried("mPipelineLayout") THEN { obj["mPipelineLayout"] } ELSE {})
                        \cup (IF tried("mGraphicsPipeline") THEN { obj["mGraphicsPipeline"] } ELSE {}))
                     \ { VK_NULL_HANDLE }
             Slot(m, h) == IF done(m) THEN h ELSE IF tried(m) THEN VK_NULL_HANDLE ELSE obj[m]
         IN /\ obj' = [obj EXCEPT !["mPipelineLayout"] = Slot("mPipelineLayout", layout),
                                  !["mGraphicsPipeline"] = Slot("mGraphicsPipeline", pipeline)]
            /\ relCount' = Rel(AddNew(Rel(relCount, olds), made \cup locals), locals)
            /\ live' = (live \ olds) \cup made
            /\ refs' = MergeRefs(refs,
                          [h \in made |-> IF h = layout THEN { obj["mDescriptorSetLayout"] }
                                          ELSE { layout, obj["mRenderPass"] }])
            /\ Flow(IF fail = 0 THEN "next" ELSE "catch")
    /\ UNCHANGED << unit, mEnableValidationLayers, windowAlive, mSwapChainImages,
                    vecVars, mCommandBuffers, allocated, signaled, gen, inFlight, exitCode, destroyed >>

(***************************************************************************)
(* createFramebuffers: resize the vector to the number of image views,     *)
(* then bind one framebuffer per view, created from view j and the render  *)
(* pass.                                                                   *)
(***************************************************************************)
createFramebuffers ==
    /\ pc = "createFramebuffers"
    /\ LET n == Len(mSwapChainImageViews)
           r1 == ResizeReleased(mSwapChainFramebuffers, fbsCap, n)
           v1 == ResizeVec(mSwapChainFramebuffers, n)
           New(j) == Handle("mSwapChainFramebuffers", j, gen)
       IN \E cap \in SameCaps(fbsCap, n, viewsCap), fail \in 0..n :
            LET tried == IF fail = 0 THEN 1..n ELSE 1..fail
                ok == IF fail = 0 THEN 1..n ELSE 1..(fail - 1)
                r2 == { v1[j] : j \in tried } \ { VK_NULL_HANDLE }
                stale == StalePositions(v1, tried, live \ r1)
                made == { New(j) : j \in ok }
            IN \/ \E killed \in AliasHits(stale, ok) :
                    /\ mSwapChainFramebuffers' =
                          [j \in 1..Len(v1) |-> IF j \in ok THEN New(j)
                                          ELSE IF j \in tried THEN VK_NULL_HANDLE ELSE v1[j]]
                    /\ fbsCap' = cap
                    /\ relCount' = AddNew(Rel(Rel(relCount, r1), r2), made)
                    /\ live' = ((live \ (r1 \cup r2)) \cup made) \ { New(i) : i \in killed }
                    /\ refs' = MergeRefs(refs,
                                  [h \in made |-> { mSwapChainImageViews[h.i], obj["mRenderPass"] }])
                    /\ Flow(IF fail = 0 THEN "next" ELSE "catch")
               \/ /\ fail = 0 /\ stale /= {}
                  /\ mSwapChainFramebuffers' = v1
                  /\ fbsCap' = cap
                  /\ relCount' = Rel(Rel(relCount, r1), { v1[j] : j \in stale })
                  /\ live' = live \ r1
                  /\ refs' = refs
                  /\ Flow("crashed")
    /\ UNCHANGED << unit, mEnableValidationLayers, windowAlive, obj, mSwapChainImages,
                    mSwapChainImageViews, viewsCap, mCommandBuffers, allocated, signaled, gen, inFlight,
                    exitCode, destroyed >>

(***************************************************************************)
(* createCommandBuffers: free the previous command buffers, allocate one   *)
(* per framebuffer and record each against framebuffer j, the render pass  *)
(* and the pipeline.  fail = n + 1: the allocation fails; fail = j <= n:   *)
(* recording of buffer j fails.  It is the last step of a rebuild.         *)
(***************************************************************************)
Recorded(j) == [fb |-> mSwapChainFramebuffers[j], pipe |-> obj["mGraphicsPipeline"],
                rp |-> obj["mRenderPass"], g |-> gen]

\* the VkCommandBuffer at position j of the vector allocated in build g
CommandBuffer(j, g) == Handle("commandBuffer", j, g)

FreeNothing(v) == {}

\* vkFreeCommandBuffers(..., mCommandBuffers.size(), mCommandBuffers.data()),
\* called when the vector is not empty
FreeCommandBuffers(v) == { CommandBuffer(j, v[j].g) : j \in 1..Len(v) }

createCommandBuffers ==
    /\ pc = "createCommandBuffers"
    /\ LET n == Len(mSwapChainFramebuffers) IN
       \E fail \in 0..(n + 1) :
         /\ mCommandBuffers' =
               [j \in 1..n |-> IF fail = 0 \/ (fail <= n /\ j <= fail)
                               THEN Recorded(j) ELSE NoCmd]
         /\ allocated' = (allocated \ FreeCommandBuffers(mCommandBuffers))
                            \cup IF fail = n + 1 THEN {}
                                 ELSE { CommandBuffer(j, gen) : j \in 1..n }
         /\ Flow(IF fail = 0 THEN "next" ELSE "catch")
    /\ UNCHANGED << unit, mEnableValidationLayers, windowAlive, obj, mSwapChainImages,
                    vecVars, signaled, gen, live, relCount, refs, inFlight, exitCode, destroyed >>

\* recreateSwapChain begins with vkDeviceWaitIdle: every queue has drained
vkDeviceWaitIdle ==
    /\ pc = "vkDeviceWaitIdle"
    /\ inFlight' = {}
    /\ Flow("next")
    /\ UNCHANGED << unit, mEnableValidationLayers, windowAlive, obj, mSwapChainImages,
                    vecVars, mCommandBuffers, allocated, signaled, gen, live, relCount, refs,
                    exitCode, destroyed >>


mainLoopIgnoresClose ==
    /\ pc = "mainLoop"
    /\ pc' = "glfwPollEvents"
    /\ lastEvent' = "none"
    /\ acqRes' = "none" /\ imageIndex' = 0 /\ submitted' = NoCmd
    /\ presented' = 0 /\ presRes' = "none" /\ drawRebuilds' = 0
    /\ sync' = << >>
    /\ caller' = "none" /\ steps' = << >>
    /\ UNCHANGED << unit, mEnableValidationLayers, stderr, windowAlive, obj, mSwapChainImages,
                    vecVars, mCommandBuffers, allocated, signaled, gen, live, relCount, refs, inFlight,
                    shouldClose, exitCode, destroyed >>

(***************************************************************************)
(* mainLoop: the loop test.  A set close flag leaves the loop for the      *)
(* final vkDeviceWaitIdle; otherwise the next iteration polls the events.  *)
(* The record of the previous iteration (the frame and the rebuild it ran) *)
(* is forgotten here.                                                      *)
(***************************************************************************)
mainLoop ==
    /\ pc = "mainLoop"
    /\ pc' = IF shouldClose THEN "finalWaitIdle" ELSE "glfwPollEvents"
    /\ lastEvent' = "none"
    /\ acqRes' = "none" /\ imageIndex' = 0 /\ submitted' = NoCmd
    /\ presented' = 0 /\ presRes' = "none" /\ drawRebuilds' = 0
    /\ sync' = << >>
    /\ caller' = "none" /\ steps' = << >>
    /\ UNCHANGED << unit, mEnableValidationLayers, stderr, windowAlive, obj, mSwapChainImages,
                    vecVars, mCommandBuffers, allocated, signaled, gen, live, relCount, refs, inFlight,
                    shouldClose, exitCode, destroyed >>

\* glfwPollEvents delivers a window-close request
windowClose ==
    /\ pc = "glfwPollEvents"
    /\ ~shouldClose
    /\ shouldClose' = TRUE
    /\ lastEvent' = "close"
    /\ UNCHANGED << pc, caller, unit, mEnableValidationLayers, stderr, windowAlive, obj,
                    mSwapChainImages, vecVars, mCommandBuffers, allocated, signaled, gen, live, relCount,
                    refs, inFlight, frameVars, steps, exitCode, destroyed >>

resizeAlwaysRebuilds ==
    /\ pc = "glfwPollEvents"
    /\ \E width \in { 0, 800 }, height \in { 0, 600 } :
         /\ gen < MaxBuilds
         /\ lastEvent' = IF width = 0 \/ height = 0 THEN "resizeZero" ELSE "resize"
         /\ caller' = "resize"
         /\ steps' = << >>
         /\ pc' = RebuildOrder[1]
    /\ UNCHANGED << unit, mEnableValidationLayers, stderr, windowAlive, obj, mSwapChainImages,
                    vecVars, mCommandBuffers, allocated, signaled, gen, live, relCount, refs, inFlight,
                    shouldClose, frameVars, exitCode, destroyed >>

\* the window size callback, called from glfwPollEvents
resize ==
    /\ pc = "glfwPollEvents"
    /\ \E width \in { 0, 800 }, height \in { 0, 600 } :
         IF width = 0 \/ height = 0
         THEN /\ lastEvent' = "resizeZero"
              /\ UNCHANGED << pc, caller, steps >>
         ELSE /\ gen < MaxBuilds
              /\ lastEvent' = "resize"
              /\ caller' = "resize"
              /\ steps' = << >>
              /\ pc' = RebuildOrder[1]
    /\ UNCHANGED << unit, mEnableValidationLayers, stderr, windowAlive, obj, mSwapChainImages,
                    vecVars, mCommandBuffers, allocated, signaled, gen, live, relCount, refs, inFlight,
                    shouldClose, frameVars, exitCode, destroyed >>

\* glfwPollEvents returns; the record of the callbacks it ran is forgotten
pollReturn ==
    /\ pc = "glfwPollEvents"
    /\ pc' = "updateUniformBuffer"
    /\ lastEvent' = "none"
    /\ caller' = "none" /\ steps' = << >>
    /\ UNCHANGED << unit, mEnableValidationLayers, stderr, windowAlive, obj, mSwapChainImages,
                    vecVars, mCommandBuffers, allocated, signaled, gen, live, relCount, refs, inFlight,
                    shouldClose, frameVars, exitCode, destroyed >>

updateUniformBufferNoWait ==
    /\ pc = "updateUniformBuffer"
    /\ inFlight' = inFlight
    /\ pc' = "vkAcquireNextImageKHR"
    /\ UNCHANGED << caller, unit, mEnableValidationLayers, stderr, windowAlive, obj, mSwapChainImages,
                    vecVars, mCommandBuffers, allocated, signaled, gen, live, relCount, refs, winVars,
                    frameVars, steps, exitCode, destroyed >>

\* updateUniformBuffer: copyBuffer submits a one-time command buffer and
\* waits with vkQueueWaitIdle for the graphics queue
updateUniformBuffer ==
    /\ pc = "updateUniformBuffer"
    /\ inFlight' = inFlight \ { "graphics" }
    /\ pc' = "vkAcquireNextImageKHR"
    /\ UNCHANGED << caller, unit, mEnableValidationLayers, stderr, windowAlive, obj, mSwapChainImages,
                    vecVars, mCommandBuffers, allocated, signaled, gen, live, relCount, refs, winVars,
                    frameVars, steps, exitCode, destroyed >>

AcquireResults == { "VK_SUCCESS", "VK_SUBOPTIMAL_KHR", "VK_ERROR_OUT_OF_DATE_KHR",
                    "VK_ERROR_SURFACE_LOST_KHR" }

\* how drawFrame reacts to the result of vkAcquireNextImageKHR
AcquireRebuildsOnLost(res) ==
    IF res \in { "VK_ERROR_OUT_OF_DATE_KHR", "VK_ERROR_SURFACE_LOST_KHR" } THEN "rebuild"
    ELSE IF res \in { "VK_SUCCESS", "VK_SUBOPTIMAL_KHR" } THEN "submit"
    ELSE "throw"

AcquireRebuildsOnSuboptimal(res) ==
    IF res \in { "VK_ERROR_OUT_OF_DATE_KHR", "VK_SUBOPTIMAL_KHR" } THEN "rebuild"
    ELSE IF res = "VK_SUCCESS" THEN "submit"
    ELSE "throw"

AcquireIgnoresOutdated(res) ==
    IF res \in { "VK_SUCCESS", "VK_SUBOPTIMAL_KHR", "VK_ERROR_OUT_OF_DATE_KHR" } THEN "submit"
    ELSE "throw"

OnAcquire(res) ==
    IF res = "VK_ERROR_OUT_OF_DATE_KHR" THEN "rebuild"
    ELSE IF res /= "VK_SUCCESS" /\ res /= "VK_SUBOPTIMAL_KHR" THEN "throw"
    ELSE "submit"

(***************************************************************************)
(* The three calls of drawFrame with the semaphores they name: the acquire *)
(* signals mImageAvailableSemaphore; the submission of the command buffer  *)
(* of the acquired image waits for it and signals                          *)
(* mRenderFinishedSemaphore; the present of that image waits for the       *)
(* semaphores the submission signals.                                      *)
(***************************************************************************)
AcquireCall(idx) ==
    [op |-> "vkAcquireNextImageKHR", index |-> idx, cmd |-> NoCmd,
     wait |-> {}, signal |-> { obj["mImageAvailableSemaphore"] }]

\* a submission that waits for no semaphore
SubmitWaitsForNothing(idx) ==
    [op |-> "vkQueueSubmit", index |-> idx, cmd |-> mCommandBuffers[idx],
     wait |-> {}, signal |-> { obj["mRenderFinishedSemaphore"] }]

SubmitInfo(idx) ==
    [op |-> "vkQueueSubmit", index |-> idx, cmd |-> mCommandBuffers[idx],
     wait |-> { obj["mImageAvailableSemaphore"] },
     signal |-> { obj["mRenderFinishedSemaphore"] }]

PresentWaitsForAcquire(idx) ==
    [op |-> "vkQueuePresentKHR", index |-> idx, cmd |-> NoCmd,
     wait |-> { obj["mImageAvailableSemaphore"] }, signal |-> {}]

PresentInfo(idx) ==
    [op |-> "vkQueuePresentKHR", index |-> idx, cmd |-> NoCmd,
     wait |-> SubmitInfo(idx).signal, signal |-> {}]

\* drawFrame, first part: vkAcquireNextImageKHR and the test of its result.
\* A call that returns an image signals the semaphore it was given; a call
\* that returns an error signals nothing.
acquireImage ==
    /\ pc = "vkAcquireNextImageKHR"
    /\ \E res \in AcquireResults, idx \in 1..Len(mSwapChainImages) :
         CASE OnAcquire(res) = "rebuild" ->
                 /\ idx = 1
                 /\ gen < MaxBuilds
                 /\ acqRes' = res
                 /\ caller' = "acquire"
                 /\ steps' = << >>
                 /\ pc' = RebuildOrder[1]
                 /\ UNCHANGED << winVars, imageIndex, submitted, presented, presRes,
                                 drawRebuilds, sync, stderr, signaled >>
           [] OnAcquire(res) = "throw" ->
                 /\ idx = 1
                 /\ Unwind("catch", res, "none")
                 /\ UNCHANGED signaled
           [] OnAcquire(res) = "submit" ->
                 /\ acqRes' = res
                 /\ imageIndex' = idx
                 /\ sync' = << AcquireCall(idx) >>
                 /\ signaled' = signaled \cup AcquireCall(idx).signal
                 /\ pc' = "vkQueueSubmit"
                 /\ UNCHANGED << caller, steps, winVars, submitted, presented, presRes,
                                 drawRebuilds, stderr >>
    /\ UNCHANGED << unit, mEnableValidationLayers, windowAlive, obj, mSwapChainImages,
                    vecVars, mCommandBuffers, allocated, gen, live, relCount, refs, inFlight,
                    exitCode, destroyed >>

\* drawFrame, second part: submit the command buffer of the acquired image;
\* the submission consumes the signals it waits for and signals its own
\* semaphores.  A failed submission queues nothing and throws.
queueSubmit ==
    /\ pc = "vkQueueSubmit"
    /\ \E ok \in BOOLEAN :
         IF ok
         THEN /\ submitted' = SubmitInfo(imageIndex).cmd
              /\ sync' = Append(sync, SubmitInfo(imageIndex))
              /\ inFlight' = inFlight \cup { "graphics" }
              /\ signaled' = (signaled \ SubmitInfo(imageIndex).wait)
                                \cup SubmitInfo(imageIndex).signal
              /\ pc' = "vkQueuePresentKHR"
              /\ UNCHANGED << caller, steps, winVars, acqRes, imageIndex, presented,
                              presRes, drawRebuilds, stderr >>
         ELSE /\ Unwind("catch", "none", "none")
              /\ UNCHANGED << inFlight, signaled >>
    /\ UNCHANGED << unit, mEnableValidationLayers, windowAlive, obj, mSwapChainImages,
                    vecVars, mCommandBuffers, allocated, gen, live, relCount, refs,
                    exitCode, destroyed >>

PresentResults == { "VK_SUCCESS", "VK_SUBOPTIMAL_KHR", "VK_ERROR_OUT_OF_DATE_KHR",
                    "VK_ERROR_SURFACE_LOST_KHR" }

\* how drawFrame reacts to the result of vkQueuePresentKHR
PresentIgnoresSuboptimal(res) ==
    IF res = "VK_ERROR_OUT_OF_DATE_KHR" THEN "rebuild"
    ELSE IF res \in { "VK_SUCCESS", "VK_SUBOPTIMAL_KHR" } THEN "return"
    ELSE "throw"

OnPresent(res) ==
    IF res = "VK_ERROR_OUT_OF_DATE_KHR" \/ res = "VK_SUBOPTIMAL_KHR" THEN "rebuild"
    ELSE IF res /= "VK_SUCCESS" THEN "throw"
    ELSE "return"

(***************************************************************************)
(* drawFrame, last part: vkQueuePresentKHR is called with the acquired     *)
(* index, and its result is tested.  drawFrame reads its locals no more    *)
(* once it calls recreateSwapChain.  The wait of the present request is    *)
(* queued whatever the presentation engine answers.                        *)
(***************************************************************************)
queuePresent ==
    /\ pc = "vkQueuePresentKHR"
    /\ \E res \in PresentResults :
         /\ inFlight' = IF res \in { "VK_SUCCESS", "VK_SUBOPTIMAL_KHR" }
                        THEN inFlight \cup { "present" } ELSE inFlight
         /\ signaled' = signaled \ PresentInfo(imageIndex).wait
         /\ CASE OnPresent(res) = "rebuild" ->
                   /\ gen < MaxBuilds
                   /\ presRes' = res
                   /\ caller' = "present"
                   /\ steps' = << >>
                   /\ pc' = RebuildOrder[1]
                   /\ acqRes' = "none" /\ imageIndex' = 0
                   /\ submitted' = NoCmd /\ presented' = 0
                   /\ sync' = << >>
                   /\ UNCHANGED << winVars, drawRebuilds, stderr >>
              [] OnPresent(res) = "throw" ->
                   Unwind("catch", "none", res)
              [] OnPresent(res) = "return" ->
                   /\ presRes' = res
                   /\ presented' = PresentInfo(imageIndex).index
                   /\ sync' = Append(sync, PresentInfo(imageIndex))
                   /\ pc' = "mainLoop"
                   /\ UNCHANGED << caller, steps, winVars, acqRes, imageIndex, submitted,
                                   drawRebuilds, stderr >>
    /\ UNCHANGED << unit, mEnableValidationLayers, windowAlive, obj, mSwapChainImages,
                    vecVars, mCommandBuffers, allocated, gen, live, relCount, refs,
                    exitCode, destroyed >>

\* mainLoop after the loop: vkDeviceWaitIdle, then run() returns
finalWaitIdle ==
    /\ pc = "finalWaitIdle"
    /\ inFlight' = {}
    /\ pc' = "return"
    /\ UNCHANGED << caller, unit, mEnableValidationLayers, stderr, windowAlive, obj, mSwapChainImages,
                    vecVars, mCommandBuffers, allocated, signaled, gen, live, relCount, refs, winVars,
                    frameVars, steps, exitCode, destroyed >>

(***************************************************************************)
(* main: run() returned or threw.  The exit status is chosen and app is    *)
(* destroyed: the body of ~BasicApp destroys the window, then the members  *)
(* are destroyed in the reverse of their declaration order (the elements   *)
(* of a vector member first to last).  Releasing a stale handle is ignored *)
(* or crashes the process at that call.                                    *)
(***************************************************************************)
WindowH == Handle("mWindow", 0, 0)

NonNull(h) == h /= VK_NULL_HANDLE

HeldBy(m) ==
    IF m = "mSwapChainImageViews" THEN SelectSeq(mSwapChainImageViews, NonNull)
    ELSE IF m = "mSwapChainFramebuffers" THEN SelectSeq(mSwapChainFramebuffers, NonNull)
    ELSE SelectSeq(<< obj[m] >>, NonNull)

RECURSIVE DestroyFrom(_)
DestroyFrom(t) == IF t = 0 THEN << >> ELSE HeldBy(Members[t]) \o DestroyFrom(t - 1)

mainExit ==
    /\ pc \in { "catch", "return" }
    /\ \E order \in { << WindowH >> \o DestroyFrom(Len(Members)) } :
         \E gone \in { Range(order) } :
            \/ /\ destroyed' = order
               /\ exitCode' = IF pc = "catch" THEN 1 ELSE 0
               /\ pc' = "done"
               /\ relCount' = Rel(relCount, gone)
               /\ live' = live \ gone
               /\ obj' = [m \in ScalarMembers |-> VK_NULL_HANDLE]
            \/ \E j \in { x \in 2..Len(order) : order[x] \notin live } :
                  /\ destroyed' = SubSeq(order, 1, j)
                  /\ exitCode' = exitCode
                  /\ pc' = "crashed"
                  /\ relCount' = Rel(relCount, { order[x] : x \in 1..j })
                  /\ live' = live \ { order[x] : x \in 1..j }
                  /\ obj' = [m \in ScalarMembers |->
                               IF \E x \in 1..j : order[x] = obj[m]
                               THEN VK_NULL_HANDLE ELSE obj[m]]
    /\ windowAlive' = FALSE
    /\ mSwapChainImageViews' = << >>
    /\ mSwapChainFramebuffers' = << >>
    /\ mSwapChainImages' = << >>
    /\ mCommandBuffers' = << >>
    /\ allocated' = IF obj["mCommandPool"] \in live' THEN allocated ELSE {}
    /\ signaled' = signaled \cap live'
    /\ caller' = "none"
    /\ lastEvent' = "none"
    /\ acqRes' = "none" /\ imageIndex' = 0 /\ submitted' = NoCmd
    /\ presented' = 0 /\ presRes' = "none" /\ drawRebuilds' = 0
    /\ sync' = << >>
    /\ steps' = << >>
    /\ UNCHANGED << unit, mEnableValidationLayers, stderr, viewsCap, fbsCap, gen, refs, inFlight,
                    shouldClose >>

Next ==
    \/ initWindow
    \/ CreateStatic
    \/ createSwapChain
    \/ createImageViews
    \/ createRenderPass
    \/ createGraphicsPipeline
    \/ createFramebuffers
    \/ createCommandBuffers
    \/ vkDeviceWaitIdle
    \/ mainLoop
    \/ windowClose
    \/ resize
    \/ pollReturn
    \/ updateUniformBuffer
    \/ acquireImage
    \/ queueSubmit
    \/ queuePresent
    \/ finalWaitIdle
    \/ mainExit

Spec == Init /\ [][Next]_vars

(***************************************************************************)
(* The program is one thread that keeps running: the loop test is          *)
(* evaluated, the vkDeviceWaitIdle after the loop returns, and main        *)
(* returns and destroys app.                                               *)
(***************************************************************************)
FairSpec ==
    Spec /\ WF_vars(mainLoop) /\ WF_vars(finalWaitIdle) /\ WF_vars(mainExit)

(***************************************************************************)
(* vk::Deleter run on its own (deleter.h).  The unit holds mObject, the    *)
(* handles its release function mDeleter was called with, the number of    *)
(* handles creation calls have returned, and one trace entry per           *)
(* operation: the handle held before and after it, the calls of mDeleter   *)
(* it made and how it ended.                                               *)
(***************************************************************************)
MaxDeleterOps == 4      \* operations applied to the Deleter

NewDeleter ==
    [fn |-> "Deleter", mObject |-> VK_NULL_HANDLE, released |-> << >>, made |-> 0,
     thrown |-> FALSE, dead |-> FALSE, trace |-> << >>]

CleanupKeepsHandle(d) ==
    [d EXCEPT !.released = IF d.mObject /= VK_NULL_HANDLE THEN Append(@, d.mObject) ELSE @]

CleanupLeaks(d) == [d EXCEPT !.mObject = VK_NULL_HANDLE]

\* void cleanup(): if (mObject != VK_NULL_HANDLE) mDeleter(mObject); mObject = VK_NULL_HANDLE
Cleanup(d) ==
    [d EXCEPT !.released = IF d.mObject /= VK_NULL_HANDLE THEN Append(@, d.mObject) ELSE @,
              !.mObject = VK_NULL_HANDLE]

CreateIgnoresFailure(d, ok) ==
    IF ok THEN [d EXCEPT !.mObject = Handle("deleter", 0, d.made + 1), !.made = @ + 1]
    ELSE d

(***************************************************************************)
(* A creation call that was handed &deleter, and the test of its result by *)
(* the caller: on VK_SUCCESS the new handle has been written through the   *)
(* pointer; otherwise nothing was written and the caller throws.           *)
(***************************************************************************)
CreateInto(d, ok) ==
    IF ok THEN [d EXCEPT !.mObject = Handle("deleter", 0, d.made + 1), !.made = @ + 1]
    ELSE [d EXCEPT !.thrown = TRUE]

Traced(d0, d1, op, result) ==
    [d1 EXCEPT !.trace = Append(@, [op |-> op, before |-> d0.mObject, after |-> d1.mObject,
                                    calls |-> Len(d1.released) - Len(d0.released),
                                    result |-> result])]

\* cleanup() on its own, as operator& and ~Deleter call it
cleanup ==
    /\ unit.fn = "Deleter"
    /\ ~unit.dead /\ ~unit.thrown
    /\ Len(unit.trace) < MaxDeleterOps
    /\ unit' = Traced(unit, Cleanup(unit), "cleanup", "void")
    /\ UNCHANGED appVars

\* vkCreateX(..., &deleter): operator& cleans up and returns &mObject, then
\* the creation call runs
operatorAmp ==
    /\ unit.fn = "Deleter"
    /\ ~unit.dead /\ ~unit.thrown
    /\ Len(unit.trace) < MaxDeleterOps
    /\ \E ok \in BOOLEAN :
         unit' = Traced(unit, CreateInto(Cleanup(unit), ok), "bind",
                        IF ok THEN "bound" ELSE "failed")
    /\ UNCHANGED appVars

\* ~Deleter(), also when a throw unwinds the stack
destructor ==
    /\ unit.fn = "Deleter"
    /\ ~unit.dead
    /\ Len(unit.trace) < MaxDeleterOps
    /\ unit' = Traced(unit, [Cleanup(unit) EXCEPT !.dead = TRUE], "destructor", "void")
    /\ UNCHANGED appVars

(***************************************************************************)
(* The functions of BasicApp that compute a value from the reports of the  *)
(* driver, each run on its own: unit.in is the input, unit.out the value   *)
(* once unit.done.  Unsigned values are kept modulo 2^UintBits.            *)
(***************************************************************************)
UintBits == 16          \* bits of an unsigned integer of the model (uint32_t has 32)

\* std::numeric_limits<uint32_t>::max(), at the width of the model
UINT32_MAX == (2 ^ UintBits) - 1

ToUint32(x) == x % (UINT32_MAX + 1)

Min(a, b) == IF a <= b THEN a ELSE b

mWidth == 800
mHeight == 600

MaxFamily == 2          \* largest queue family index of the adapter

Extent(w, h) == [width |-> w, height |-> h]

ChooseSwapExtentWindowSize(capabilities) ==
    IF capabilities.currentExtent.width /= UINT32_MAX
    THEN capabilities.currentExtent
    ELSE Extent(ToUint32(mWidth), ToUint32(mHeight))

\* VkExtent2D chooseSwapExtent(const VkSurfaceCapabilitiesKHR& capabilities)
ChooseSwapExtent(capabilities) ==
    IF capabilities.currentExtent.width /= UINT32_MAX
    THEN capabilities.currentExtent
    ELSE Extent(Max(capabilities.minImageExtent.width,
                    Min(capabilities.maxImageExtent.width, ToUint32(mWidth))),
                Max(capabilities.minImageExtent.height,
                    Min(capabilities.maxImageExtent.height, ToUint32(mHeight))))

ImageCountUncapped(capabilities) == ToUint32(capabilities.minImageCount + 1)

\* createSwapChain: the number of images requested from the swap chain
ImageCount(capabilities) ==
    LET imageCount == ToUint32(capabilities.minImageCount + 1)
    IN IF capabilities.maxImageCount > 0 /\ imageCount > capabilities.maxImageCount
       THEN capabilities.maxImageCount
       ELSE imageCount

\* std::set<int> uniqueQueueFamilies = { graphicsFamily, presentFamily }
UniqueQueueFamilies(indices) == { indices.graphicsFamily, indices.presentFamily }

(***************************************************************************)
(* createLogicalDevice: one VkDeviceQueueCreateInfo per element of the     *)
(* set; the loop stores indices.graphicsFamily in each, not the element.   *)
(***************************************************************************)
QueueCreateInfos(indices) ==
    [k \in 1..Cardinality(UniqueQueueFamilies(indices)) |->
       [queueFamilyIndex |-> indices.graphicsFamily, queueCount |-> 1]]

\* the valid reports of the surface used as inputs: min <= max in each
\* component, the current extent fixed or the 'any size' value
ExtentRanges(lo, mid, hi) == { << lo, lo >>, << lo, mid >>, << lo, hi >>, << mid, mid >>, << mid, hi >> }

ExtentReports ==
    { [currentExtent |-> Extent(cw, ch),
       minImageExtent |-> Extent(w[1], h[1]),
       maxImageExtent |-> Extent(w[2], h[2])] :
         cw \in { UINT32_MAX, 1024 }, ch \in { UINT32_MAX, 768 },
         w \in ExtentRanges(1, 640, 4096) \cup { << 1024, 1024 >> },
         h \in ExtentRanges(1, 480, 4096) \cup { << 768, 768 >> } }

CountReports ==
    { [minImageCount |-> lo, maxImageCount |-> hi] :
         lo \in { 1, 2, 3, UINT32_MAX - 1, UINT32_MAX },
         hi \in { 0, 1, 2, 3, 4, UINT32_MAX } }

FamilyIndices ==
    { [graphicsFamily |-> g, presentFamily |-> p] : g \in 0..MaxFamily, p \in 0..MaxFamily }

MaxFormats == 2         \* longest list of surface formats and of present modes

\* all sequences over S of the lengths lo..hi
SeqsOf(S, lo, hi) == UNION { [1..k -> S] : k \in lo..hi }

SurfaceFormat(f, c) == [format |-> f, colorSpace |-> c]

\* the pair chooseSwapSurfaceFormat looks for
PreferredFormat ==
    SurfaceFormat("VK_FORMAT_B8G8R8A8_UNORM", "VK_COLOR_SPACE_SRGB_NONLINEAR_KHR")

ChooseFirstFormat(availableFormats) ==
    IF Len(availableFormats) = 1 /\ availableFormats[1].format = "VK_FORMAT_UNDEFINED"
    THEN PreferredFormat
    ELSE availableFormats[1]

(***************************************************************************)
(* VkSurfaceFormatKHR chooseSwapSurfaceFormat(availableFormats): the list  *)
(* of vkGetPhysicalDeviceSurfaceFormatsKHR; the loop returns the first     *)
(* entry that has the preferred format and colour space.                   *)
(***************************************************************************)
ChooseSwapSurfaceFormat(availableFormats) ==
    IF Len(availableFormats) = 1 /\ availableFormats[1].format = "VK_FORMAT_UNDEFINED"
    THEN PreferredFormat
    ELSE LET hits == { j \in 1..Len(availableFormats) :
                         /\ availableFormats[j].format = "VK_FORMAT_B8G8R8A8_UNORM"
                         /\ availableFormats[j].colorSpace = "VK_COLOR_SPACE_SRGB_NONLINEAR_KHR" }
         IN IF hits /= {}
            THEN availableFormats[CHOOSE j \in hits : \A x \in hits : j <= x]
            ELSE availableFormats[1]

\* the non-empty format lists used as inputs
SurfaceFormats ==
    { SurfaceFormat(f, c) :
        f \in { "VK_FORMAT_UNDEFINED", "VK_FORMAT_B8G8R8A8_UNORM", "VK_FORMAT_R8G8B8A8_UNORM" },
        c \in { "VK_COLOR_SPACE_SRGB_NONLINEAR_KHR", "VK_COLOR_SPACE_ADOBERGB_LINEAR_EXT" } }

FormatLists == SeqsOf(SurfaceFormats, 1, MaxFormats)

ChooseFirstPresentMode(availablePresentModes) ==
    IF Len(availablePresentModes) >= 1 /\ availablePresentModes[1] = "VK_PRESENT_MODE_MAILBOX_KHR"
    THEN "VK_PRESENT_MODE_MAILBOX_KHR"
    ELSE "VK_PRESENT_MODE_FIFO_KHR"

\* VkPresentModeKHR chooseSwapPresentMode(availablePresentModes)
ChooseSwapPresentMode(availablePresentModes) ==
    IF \E j \in 1..Len(availablePresentModes) :
          availablePresentModes[j] = "VK_PRESENT_MODE_MAILBOX_KHR"
    THEN "VK_PRESENT_MODE_MAILBOX_KHR"
    ELSE "VK_PRESENT_MODE_FIFO_KHR"

PresentModes ==
    { "VK_PRESENT_MODE_IMMEDIATE_KHR", "VK_PRESENT_MODE_MAILBOX_KHR",
      "VK_PRESENT_MODE_FIFO_KHR", "VK_PRESENT_MODE_FIFO_RELAXED_KHR" }

PresentModeLists == SeqsOf(PresentModes, 0, MaxFormats)

(***************************************************************************)
(* Physical devices as the driver reports them: the queue families in      *)
(* order, the device extensions, and the formats and present modes of the  *)
(* surface.                                                                *)
(***************************************************************************)
QueueFamily(count, flags, present) ==
    [queueCount |-> count, queueFlags |-> flags, presentSupport |-> present]

PhysicalDevice(families, extensions, formats, presentModes) ==
    [queueFamilies |-> families, extensions |-> extensions,
     formats |-> formats, presentModes |-> presentModes]

\* QueueFamilyIndices: both members start at -1
NoIndices == [graphicsFamily |-> -1, presentFamily |-> -1]

IsComplete(indices) == indices.graphicsFamily >= 0 /\ indices.presentFamily >= 0

\* the loop of findQueueFamilies from family i on (i counts from 0)
RECURSIVE FindQueueFamiliesFrom(_, _, _)
FindQueueFamiliesFrom(queueFamilies, i, indices) ==
    IF i >= Len(queueFamilies) THEN indices
    ELSE LET queueFamily == queueFamilies[i + 1]
             graphics ==
                 IF queueFamily.queueCount > 0
                    /\ "VK_QUEUE_GRAPHICS_BIT" \in queueFamily.queueFlags
                 THEN i ELSE indices.graphicsFamily
             present ==
                 IF queueFamily.queueCount > 0 /\ queueFamily.presentSupport
                 THEN i ELSE indices.presentFamily
             found == [graphicsFamily |-> graphics, presentFamily |-> present]
         IN IF IsComplete(found) THEN found
            ELSE FindQueueFamiliesFrom(queueFamilies, i + 1, found)

FindQueueFamilies(device) == FindQueueFamiliesFrom(device.queueFamilies, 0, NoIndices)

mDeviceExtensions == { "VK_KHR_swapchain" }

\* every available extension is erased from the required ones
CheckDeviceExtensionSupport(device) == (mDeviceExtensions \ device.extensions) = { }

QuerySwapChainSupport(device) ==
    [formats |-> device.formats, presentModes |-> device.presentModes]

IsDeviceSuitableNoSwapChain(device) ==
    IsComplete(FindQueueFamilies(device)) /\ CheckDeviceExtensionSupport(device)

IsDeviceSuitable(device) ==
    LET indices == FindQueueFamilies(device)
        extensionsSupported == CheckDeviceExtensionSupport(device)
        swapChainAdequate ==
            IF extensionsSupported
            THEN LET swapChainSupport == QuerySwapChainSupport(device)
                 IN swapChainSupport.formats # << >> /\ swapChainSupport.presentModes # << >>
            ELSE FALSE
    IN IsComplete(indices) /\ extensionsSupported /\ swapChainAdequate

\* the loop of pickPhysicalDevice from device j on: the position of the
\* device stored in mPhysicalDevice, 0 while it is VK_NULL_HANDLE
RECURSIVE PickFrom(_, _)
PickFrom(devices, j) ==
    IF j > Len(devices) THEN 0
    ELSE IF IsDeviceSuitable(devices[j]) THEN j
    ELSE PickFrom(devices, j + 1)

PickFirstDevice(devices) ==
    [mPhysicalDevice |-> Min(1, Len(devices)),
     thrown |-> IF Len(devices) = 0 THEN "Failed to find a GPU with Vulkan support." ELSE ""]

PickPhysicalDevice(devices) ==
    IF Len(devices) = 0
    THEN [mPhysicalDevice |-> 0, thrown |-> "Failed to find a GPU with Vulkan support."]
    ELSE LET picked == PickFrom(devices, 1)
         IN [mPhysicalDevice |-> picked,
             thrown |-> IF picked = 0 THEN "Failed to find a suitable GPU." ELSE ""]

QueueFamilies ==
    { QueueFamily(c, f, p) :
         c \in { 0, 1 },
         f \in { { "VK_QUEUE_TRANSFER_BIT" }, { "VK_QUEUE_GRAPHICS_BIT", "VK_QUEUE_TRANSFER_BIT" } },
         p \in BOOLEAN }

PhysicalDevices ==
    { PhysicalDevice(q, e, f, m) :
         q \in SeqsOf(QueueFamilies, 0, MaxFamily),
         e \in SUBSET { "VK_KHR_swapchain", "VK_KHR_maintenance1" },
         f \in { << >>, << PreferredFormat >> },
         m \in { << >>, << "VK_PRESENT_MODE_FIFO_KHR" >> } }

MaxDevices == 2         \* most physical devices enumerated

\* a device with the extension, a format and a present mode
Capable(families) ==
    PhysicalDevice(families, mDeviceExtensions, << PreferredFormat >>,
                   << "VK_PRESENT_MODE_FIFO_KHR" >>)

GraphicsOnly == QueueFamily(1, { "VK_QUEUE_GRAPHICS_BIT", "VK_QUEUE_TRANSFER_BIT" }, FALSE)

PresentOnly == QueueFamily(1, { "VK_QUEUE_TRANSFER_BIT" }, TRUE)

GraphicsPresent == QueueFamily(1, { "VK_QUEUE_GRAPHICS_BIT", "VK_QUEUE_TRANSFER_BIT" }, TRUE)

\* the devices the enumerations are built from: three that have everything
\* and one that lacks each single thing
EnumeratedDevices ==
    { Capable(q) : q \in { << GraphicsPresent >>, << GraphicsOnly, PresentOnly >>,
                           << PresentOnly, GraphicsOnly >>,
                           << GraphicsOnly >>, << PresentOnly >> } }
    \cup { PhysicalDevice(<< GraphicsPresent >>, { "VK_KHR_maintenance1" },
                          << PreferredFormat >>, << "VK_PRESENT_MODE_FIFO_KHR" >>),
           PhysicalDevice(<< GraphicsPresent >>, mDeviceExtensions,
                          << >>, << "VK_PRESENT_MODE_FIFO_KHR" >>),
           PhysicalDevice(<< GraphicsPresent >>, mDeviceExtensions,
                          << PreferredFormat >>, << >>) }

DeviceLists == SeqsOf(EnumeratedDevices, 0, MaxDevices)

\* initVulkan from pickPhysicalDevice on: nothing picked, nothing created
NoDevicePicked ==
    [picked |-> FALSE, mPhysicalDevice |-> 0, thrown |-> "",
     suitable |-> NoIndices, indices |-> NoIndices, mDevice |-> FALSE]

SharingModeExclusive(indices) ==
    [imageSharingMode |-> "VK_SHARING_MODE_EXCLUSIVE",
     queueFamilyIndexCount |-> 0, pQueueFamilyIndices |-> << >>]

\* createSwapChain: the sharing mode of the images and the families named
SharingMode(indices) ==
    LET queueFamilyIndices ==
            << ToUint32(indices.graphicsFamily), ToUint32(indices.presentFamily) >>
    IN IF indices.graphicsFamily # indices.presentFamily
       THEN [imageSharingMode |-> "VK_SHARING_MODE_CONCURRENT",
             queueFamilyIndexCount |-> 2, pQueueFamilyIndices |-> queueFamilyIndices]
       ELSE [imageSharingMode |-> "VK_SHARING_MODE_EXCLUSIVE",
             queueFamilyIndexCount |-> 0, pQueueFamilyIndices |-> << >>]

(***************************************************************************)
(* createSwapChain seen as a function: the create info computed from what  *)
(* querySwapChainSupport returns and from the handle held, and what is     *)
(* stored after the call.  'extraImages' is how many images beyond         *)
(* minImageCount the driver creates for this surface.                      *)
(***************************************************************************)
SwapChainCreateInfoGrowing(swapChainSupport, oldSwapChain) ==
    [minImageCount |-> ImageCount(swapChainSupport.capabilities) + oldSwapChain,
     imageFormat |-> ChooseSwapSurfaceFormat(swapChainSupport.formats).format,
     imageColorSpace |-> ChooseSwapSurfaceFormat(swapChainSupport.formats).colorSpace,
     imageExtent |-> ChooseSwapExtent(swapChainSupport.capabilities),
     presentMode |-> ChooseSwapPresentMode(swapChainSupport.presentModes),
     oldSwapchain |-> oldSwapChain]

SwapChainCreateInfo(swapChainSupport, oldSwapChain) ==
    LET surfaceFormat == ChooseSwapSurfaceFormat(swapChainSupport.formats)
        presentMode == ChooseSwapPresentMode(swapChainSupport.presentModes)
        extent == ChooseSwapExtent(swapChainSupport.capabilities)
        count == ImageCount(swapChainSupport.capabilities)
    IN [minImageCount |-> count,
        imageFormat |-> surfaceFormat.format,
        imageColorSpace |-> surfaceFormat.colorSpace,
        imageExtent |-> extent,
        presentMode |-> presentMode,
        oldSwapchain |-> oldSwapChain]

\* mSwapChainImages.size(), mSwapChainImageFormat and mSwapChainExtent after
\* the call, with the create info that was passed
SwapChainBuilt(swapChainSupport, oldSwapChain) ==
    LET createInfo == SwapChainCreateInfo(swapChainSupport, oldSwapChain)
    IN [createInfo |-> createInfo,
        images |-> createInfo.minImageCount + swapChainSupport.extraImages,
        mSwapChainImageFormat |-> createInfo.imageFormat,
        mSwapChainExtent |-> createInfo.imageExtent]

SurfaceReports ==
    { [capabilities |-> [currentExtent |-> e.currentExtent,
                         minImageExtent |-> e.minImageExtent,
                         maxImageExtent |-> e.maxImageExtent,
                         minImageCount |-> c.minImageCount,
                         maxImageCount |-> c.maxImageCount],
       formats |-> f, presentModes |-> m, extraImages |-> x] :
         e \in ExtentReports, c \in CountReports,
         f \in { << SurfaceFormat("VK_FORMAT_UNDEFINED", "VK_COLOR_SPACE_SRGB_NONLINEAR_KHR") >>,
                 << SurfaceFormat("VK_FORMAT_R8G8B8A8_UNORM", "VK_COLOR_SPACE_SRGB_NONLINEAR_KHR") >> },
         m \in { << "VK_PRESENT_MODE_FIFO_KHR" >> },
         x \in { 0, 1 } }

(***************************************************************************)
(* findQueueFamilies with what it asks the driver: 'queried' lists the     *)
(* family numbers passed to vkGetPhysicalDeviceSurfaceSupportKHR, one per  *)
(* family the loop looks at.                                               *)
(***************************************************************************)
RECURSIVE ScanAllFamilies(_, _, _, _)
ScanAllFamilies(queueFamilies, i, indices, queried) ==
    IF i >= Len(queueFamilies) THEN [indices |-> indices, queried |-> queried]
    ELSE LET queueFamily == queueFamilies[i + 1]
             found ==
                 [graphicsFamily |->
                     IF queueFamily.queueCount > 0
                        /\ "VK_QUEUE_GRAPHICS_BIT" \in queueFamily.queueFlags
                     THEN i ELSE indices.graphicsFamily,
                  presentFamily |->
                     IF queueFamily.queueCount > 0 /\ queueFamily.presentSupport
                     THEN i ELSE indices.presentFamily]
         IN ScanAllFamilies(queueFamilies, i + 1, found, Append(queried, i))

RECURSIVE ScanQueueFamilies(_, _, _, _)
ScanQueueFamilies(queueFamilies, i, indices, queried) ==
    IF i >= Len(queueFamilies) THEN [indices |-> indices, queried |-> queried]
    ELSE LET queueFamily == queueFamilies[i + 1]
             graphics ==
                 IF queueFamily.queueCount > 0
                    /\ "VK_QUEUE_GRAPHICS_BIT" \in queueFamily.queueFlags
                 THEN i ELSE indices.graphicsFamily
             present ==
                 IF queueFamily.queueCount > 0 /\ queueFamily.presentSupport
                 THEN i ELSE indices.presentFamily
             found == [graphicsFamily |-> graphics, presentFamily |-> present]
         IN IF IsComplete(found)
            THEN [indices |-> found, queried |-> Append(queried, i)]
            ELSE ScanQueueFamilies(queueFamilies, i + 1, found, Append(queried, i))

QueueFamilyLists == SeqsOf(QueueFamilies, 0, MaxFamily + 1)

MaxLayers == 2          \* most instance layers the loader reports

mValidationLayers == << "VK_LAYER_LUNARG_standard_validation" >>

\* strcmp: 0 for equal strings, another value otherwise
Strcmp(a, b) == IF a = b THEN 0 ELSE 1

\* std::find_if over a range, given the predicate's answer for each element:
\* the first position whose element satisfies it, Len + 1 (end) when none does
FindIf(answers) ==
    IF \E j \in 1..Len(answers) : answers[j]
    THEN CHOOSE j \in 1..Len(answers) : answers[j] /\ \A k \in 1..(j - 1) : ~answers[k]
    ELSE Len(answers) + 1

(***************************************************************************)
(* checkValidationLayerSupport: the lambda returns strcmp(layerName,       *)
(* prop.layerName), converted to bool: true for a layer whose name differs *)
(* from the requested one.                                                 *)
(***************************************************************************)
CheckValidationLayerSupport(availableLayers) ==
    \A n \in 1..Len(mValidationLayers) :
       LET layerName == mValidationLayers[n]
           predicate(prop) == Strcmp(layerName, prop.layerName) # 0
       IN FindIf([j \in 1..Len(availableLayers) |-> predicate(availableLayers[j])])
             # Len(availableLayers) + 1

\* createInstance up to the throw of its first statement
CreateInstanceEntry(availableLayers, enableValidationLayers) ==
    LET supported == CheckValidationLayerSupport(availableLayers)
    IN [supported |-> supported,
        thrown |-> IF enableValidationLayers /\ ~supported
                   THEN "One or more validation layers specified by this application are not supported."
                   ELSE ""]

LayerProperties ==
    { [layerName |-> n] :
         n \in { "VK_LAYER_LUNARG_standard_validation", "VK_LAYER_LUNARG_api_dump" } }

LayerLists == SeqsOf(LayerProperties, 0, MaxLayers)

Pending(fn, in, out) == [fn |-> fn, in |-> in, out |-> out, done |-> FALSE]

UnitInit ==
    /\ Constructed
    /\ mEnableValidationLayers = FALSE
    /\ \/ unit = NewDeleter
       \/ \E c \in ExtentReports :
             unit = Pending("chooseSwapExtent",
                            [capabilities |-> c, window |-> Extent(mWidth, mHeight)],
                            Extent(0, 0))
       \/ \E c \in { r \in CountReports :
                       r.minImageCount <= r.maxImageCount \/ r.maxImageCount = 0 } :
             unit = Pending("imageCount", c, 0)
       \/ \E i \in FamilyIndices :
             unit = Pending("createLogicalDevice", i,
                            [queueCreateInfos |-> << >>, graphicsQueue |-> -1,
                             presentQueue |-> -1])
       \/ \E l \in FormatLists :
             unit = Pending("chooseSwapSurfaceFormat", l, SurfaceFormat("none", "none"))
       \/ \E l \in PresentModeLists :
             unit = Pending("chooseSwapPresentMode", l, "none")
       \/ \E d \in PhysicalDevices : unit = Pending("isDeviceSuitable", d, FALSE)
       \/ \E l \in DeviceLists : unit = Pending("pickPhysicalDevice", l, NoDevicePicked)
       \/ \E i \in FamilyIndices : unit = Pending("sharingMode", i, SharingModeExclusive(i))
       \/ \E s \in SurfaceReports : unit = Pending("recreateSwapChain", s, << >>)
       \/ \E q \in QueueFamilyLists :
             unit = Pending("findQueueFamilies", q, [indices |-> NoIndices, queried |-> << >>])
       \/ \E l \in LayerLists, v \in BOOLEAN :
             unit = Pending("checkValidationLayerSupport",
                            [availableLayers |-> l, mEnableValidationLayers |-> v],
                            [supported |-> FALSE, thrown |-> ""])

(***************************************************************************)
(* The window is resized to width x height before the swap chain is built: *)
(* resize() tests the two numbers for zero and keeps neither.              *)
(***************************************************************************)
resizeCallback ==
    /\ unit.fn = "chooseSwapExtent"
    /\ ~unit.done
    /\ unit.in.window = Extent(mWidth, mHeight)
    /\ \E size \in { Extent(1024, 768), Extent(640, 480) } :
          unit' = [unit EXCEPT !.in.window = size]
    /\ UNCHANGED appVars

chooseSwapExtent ==
    /\ unit.fn = "chooseSwapExtent"
    /\ ~unit.done
    /\ unit' = [unit EXCEPT !.out = ChooseSwapExtent(unit.in.capabilities), !.done = TRUE]
    /\ UNCHANGED appVars

imageCount ==
    /\ unit.fn = "imageCount"
    /\ ~unit.done
    /\ unit' = [unit EXCEPT !.out = ImageCount(unit.in), !.done = TRUE]
    /\ UNCHANGED appVars

\* createLogicalDevice: the queue requests and the families the two queues
\* are fetched from with vkGetDeviceQueue
createLogicalDevice ==
    /\ unit.fn = "createLogicalDevice"
    /\ ~unit.done
    /\ unit' = [unit EXCEPT !.out = [queueCreateInfos |-> QueueCreateInfos(unit.in),
                                     graphicsQueue |-> unit.in.graphicsFamily,
                                     presentQueue |-> unit.in.presentFamily],
                            !.done = TRUE]
    /\ UNCHANGED appVars

chooseSwapSurfaceFormat ==
    /\ unit.fn = "chooseSwapSurfaceFormat"
    /\ ~unit.done
    /\ unit' = [unit EXCEPT !.out = ChooseSwapSurfaceFormat(unit.in), !.done = TRUE]
    /\ UNCHANGED appVars

chooseSwapPresentMode ==
    /\ unit.fn = "chooseSwapPresentMode"
    /\ ~unit.done
    /\ unit' = [unit EXCEPT !.out = ChooseSwapPresentMode(unit.in), !.done = TRUE]
    /\ UNCHANGED appVars

isDeviceSuitable ==
    /\ unit.fn = "isDeviceSuitable"
    /\ ~unit.done
    /\ unit' = [unit EXCEPT !.out = IsDeviceSuitable(unit.in), !.done = TRUE]
    /\ UNCHANGED appVars

(***************************************************************************)
(* pickPhysicalDevice as initVulkan calls it.  A throw ends initVulkan;    *)
(* otherwise 'suitable' keeps the indices isDeviceSuitable computed for    *)
(* the device that was stored.                                             *)
(***************************************************************************)
pickPhysicalDevice ==
    /\ unit.fn = "pickPhysicalDevice"
    /\ ~unit.done
    /\ ~unit.out.picked
    /\ \E r \in { PickPhysicalDevice(unit.in) } :
          unit' = [unit EXCEPT !.out.picked = TRUE,
                               !.out.mPhysicalDevice = r.mPhysicalDevice,
                               !.out.thrown = r.thrown,
                               !.out.suitable =
                                   IF r.mPhysicalDevice = 0 THEN NoIndices
                                   ELSE FindQueueFamilies(unit.in[r.mPhysicalDevice]),
                               !.done = (r.thrown # "")]
    /\ UNCHANGED appVars

\* createLogicalDevice, the next call of initVulkan: findQueueFamilies on
\* mPhysicalDevice again, then vkCreateDevice, which may fail
createLogicalDeviceOnPicked ==
    /\ unit.fn = "pickPhysicalDevice"
    /\ ~unit.done
    /\ unit.out.picked
    /\ \E ok \in BOOLEAN :
          unit' = [unit EXCEPT !.out.indices = FindQueueFamilies(unit.in[unit.out.mPhysicalDevice]),
                               !.out.mDevice = ok,
                               !.out.thrown = IF ok THEN "" ELSE "Failed to create logical device.",
                               !.done = TRUE]
    /\ UNCHANGED appVars

\* createSwapChain: the sharing mode written into the create info
sharingMode ==
    /\ unit.fn = "sharingMode"
    /\ ~unit.done
    /\ unit' = [unit EXCEPT !.out = SharingMode(unit.in), !.done = TRUE]
    /\ UNCHANGED appVars

(***************************************************************************)
(* recreateSwapChain run on a surface whose report stays the same: each    *)
(* run appends what createSwapChain built; the handle held before the run  *)
(* is the number of the previous build, 0 for none.                        *)
(***************************************************************************)
recreateSwapChain ==
    /\ unit.fn = "recreateSwapChain"
    /\ ~unit.done
    /\ unit' = [unit EXCEPT !.out = Append(unit.out, SwapChainBuilt(unit.in, Len(unit.out))),
                            !.done = (Len(unit.out) + 1 = MaxBuilds)]
    /\ UNCHANGED appVars

findQueueFamilies ==
    /\ unit.fn = "findQueueFamilies"
    /\ ~unit.done
    /\ unit' = [unit EXCEPT !.out = ScanQueueFamilies(unit.in, 0, NoIndices, << >>),
                            !.done = TRUE]
    /\ UNCHANGED appVars

\* createInstance: the test of the validation layers at its entry
checkValidationLayerSupport ==
    /\ unit.fn = "checkValidationLayerSupport"
    /\ ~unit.done
    /\ unit' = [unit EXCEPT !.out = CreateInstanceEntry(unit.in.availableLayers,
                                                        unit.in.mEnableValidationLayers),
                            !.done = TRUE]
    /\ UNCHANGED appVars

UnitNext ==
    \/ cleanup
    \/ operatorAmp
    \/ destructor
    \/ resizeCallback
    \/ chooseSwapExtent
    \/ imageCount
    \/ createLogicalDevice
    \/ chooseSwapSurfaceFormat
    \/ chooseSwapPresentMode
    \/ isDeviceSuitable
    \/ pickPhysicalDevice
    \/ createLogicalDeviceOnPicked
    \/ sharingMode
    \/ recreateSwapChain
    \/ findQueueFamilies
    \/ checkValidationLayerSupport

UnitSpec == UnitInit /\ [][UnitNext]_vars

(***************************************************************************)
(* Properties                                                              *)
(***************************************************************************)
RebuildCallers == { "resize", "acquire", "present" }

FrameCalls == { "vkAcquireNextImageKHR", "vkQueueSubmit", "vkQueuePresentKHR" }

\* the rebuild sequence as the specification words it
FullRebuild ==
    << "vkDeviceWaitIdle", "createSwapChain", "createImageViews", "createRenderPass",
       "createGraphicsPipeline", "createFramebuffers", "createCommandBuffers" >>

Prefix(s, k) == SubSeq(s, 1, k)

\* the parent a handle must not outlive: the device for what the device
\* creates; the instance for the device, the surface and the debug callback
OwnerOf(h) == IF h = DeviceH THEN InstanceH ELSE ParentHandle(h)

Released(h) == h \in DOMAIN relCount /\ relCount[h] >= 1

(***************************************************************************)
(* C1: every child object is released strictly before its parent: what the *)
(* device created before the device; the device, the surface and the debug  *)
(* callback before the instance.  No parent is released while the program   *)
(* runs; in the destruction of the application, on the normal and on every  *)
(* error exit, each released handle precedes its parent, and once a parent  *)
(* is released every handle bound under it has been released.               *)
(***************************************************************************)
C1_ChildBeforeParent ==
    /\ pc \notin { "done", "crashed" } => ~Released(DeviceH) /\ ~Released(InstanceH)
    /\ \A i \in 1..Len(destroyed), j \in 1..Len(destroyed) :
          destroyed[j] = OwnerOf(destroyed[i]) => i < j
    /\ \A h \in DOMAIN relCount :
          OwnerOf(h) \in Range(destroyed) => relCount[h] >= 1

\* an error exit after a rebuild has released device, callback, surface and instance
C1_Witness ==
    /\ pc = "done" /\ exitCode = 1 /\ gen >= 2
    /\ Released(DeviceH) /\ Released(InstanceH)
    /\ Released(Handle("mCallback", 0, 0)) /\ Released(Handle("mSurface", 0, 0))
    /\ Released(Handle("mSwapChain", 0, gen))

(***************************************************************************)
(* C2: every handle bound into a Deleter is released exactly once: never   *)
(* more than once at any time, and exactly once when the program has       *)
(* exited, whatever the image counts of the successive swap chains.        *)
(***************************************************************************)
C2_ReleasedExactlyOnce ==
    \A h \in DOMAIN relCount :
       /\ relCount[h] <= 1
       /\ pc = "done" => relCount[h] = 1

(***************************************************************************)
(* C3: no step releases an object while submitted device work may still be *)
(* in flight: a device-idle wait has completed since the last submission.  *)
(***************************************************************************)
ReleasesSomething ==
    \E h \in DOMAIN relCount' :
       relCount'[h] > (IF h \in DOMAIN relCount THEN relCount[h] ELSE 0)

C3_IdleBeforeRelease == [][ReleasesSomething => inFlight = {}]_vars

(***************************************************************************)
(* C4: during a rebuild, as at any time, an existing framebuffer has its   *)
(* image view and render pass still existing, and an existing pipeline its *)
(* render pass and pipeline layout: the referring object is released first.*)
(***************************************************************************)
C4_ReferrerReleasedFirst ==
    \A h \in live :
       h.k \in { "mSwapChainFramebuffers", "mGraphicsPipeline" } => refs[h] \subseteq live

(***************************************************************************)
(* C5: an acquisition that reports 'outdated' runs one full rebuild and    *)
(* the frame returns with nothing submitted and nothing presented.         *)
(***************************************************************************)
C5_AcquireOutdated ==
    acqRes = "VK_ERROR_OUT_OF_DATE_KHR" =>
       /\ pc \notin { "vkQueueSubmit", "vkQueuePresentKHR" }
       /\ submitted = NoCmd /\ presented = 0 /\ presRes = "none"
       /\ caller = "acquire"
       /\ pc = "mainLoop" => drawRebuilds = 1 /\ steps = FullRebuild

C5_Witness ==
    /\ acqRes = "VK_ERROR_OUT_OF_DATE_KHR" /\ pc = "mainLoop"
    /\ drawRebuilds = 1 /\ steps = FullRebuild

C7_PresentResult ==
    /\ presRes \in { "VK_ERROR_OUT_OF_DATE_KHR", "VK_SUBOPTIMAL_KHR" } =>
          /\ pc \notin FrameCalls
          /\ pc = "mainLoop" =>
                caller = "present" /\ drawRebuilds = 1 /\ steps = FullRebuild
    /\ presRes = "VK_SUCCESS" =>
          /\ caller = "none" /\ drawRebuilds = 0 /\ steps = << >>
          /\ pc = "mainLoop"

C7_Witness ==
    /\ pc = "mainLoop" /\ presRes = "VK_SUBOPTIMAL_KHR"
    /\ caller = "present" /\ drawRebuilds = 1

(***************************************************************************)
(* C8: an acquisition that reports 'suboptimal' starts no rebuild at the   *)
(* acquisition: the frame submits the command buffer of the acquired index *)
(* and presents that index, and only the test of the presentation result   *)
(* may start a rebuild.                                                    *)
(***************************************************************************)
C8_AcquireSuboptimal ==
    acqRes = "VK_SUBOPTIMAL_KHR" =>
       /\ caller = "none" /\ steps = << >> /\ drawRebuilds = 0
       /\ pc \in { "vkQueueSubmit", "vkQueuePresentKHR", "mainLoop" }
       /\ imageIndex \in 1..Len(mCommandBuffers)
       /\ pc = "vkQueueSubmit" => submitted = NoCmd /\ presented = 0
       /\ pc = "vkQueuePresentKHR" =>
             submitted = mCommandBuffers[imageIndex] /\ presented = 0
       /\ pc = "mainLoop" =>
             /\ submitted = mCommandBuffers[imageIndex]
             /\ presented = imageIndex
             /\ presRes = "VK_SUCCESS"

C8_Witness ==
    /\ acqRes = "VK_SUBOPTIMAL_KHR" /\ pc = "mainLoop"
    /\ presRes = "VK_SUCCESS" /\ presented = imageIndex /\ imageIndex >= 1
    /\ submitted = mCommandBuffers[imageIndex] /\ drawRebuilds = 0

(***************************************************************************)
(* C9: every rebuild, whether a resize, an acquisition or a presentation   *)
(* started it, first waits for the device to be idle and then recreates    *)
(* the swap chain, the image views, the render pass, the pipeline, the     *)
(* framebuffers and the command buffers, in that order.                    *)
(***************************************************************************)
C9_RebuildOrder ==
    caller \in RebuildCallers =>
       /\ \E k \in 0..Len(FullRebuild) : steps = Prefix(FullRebuild, k)
       /\ pc \in Range(FullRebuild) =>
             /\ steps = Prefix(FullRebuild, IndexOf(FullRebuild, pc) - 1)
             /\ Len(steps) >= 1 => inFlight = {}
       /\ pc \in { "mainLoop", "glfwPollEvents" } => steps = FullRebuild

C9_Witness ==
    /\ caller = "resize" /\ pc = "glfwPollEvents" /\ steps = FullRebuild
    /\ gen = 2 /\ Len(mCommandBuffers) = Len(mSwapChainImages)

(***************************************************************************)
(* C10: when a frame acquires, submits or presents, the swap chain, image  *)
(* views, render pass, pipeline, framebuffers and command buffers all      *)
(* belong to the current build: each exists, was created from the current  *)
(* swap chain and refers only to existing objects of that build, and each  *)
(* command buffer is the one recorded against them.                        *)
(***************************************************************************)
CurrentObject(h) == h \in live /\ h.g = gen

C10_FrameUsesCurrentBuild ==
    pc \in FrameCalls =>
       /\ CurrentObject(obj["mSwapChain"])
       /\ CurrentObject(obj["mRenderPass"])
       /\ CurrentObject(obj["mGraphicsPipeline"])
       /\ CurrentObject(obj["mPipelineLayout"])
       /\ refs[obj["mGraphicsPipeline"]] = { obj["mPipelineLayout"], obj["mRenderPass"] }
       /\ Len(mSwapChainImageViews) = Len(mSwapChainImages)
       /\ Len(mSwapChainFramebuffers) = Len(mSwapChainImages)
       /\ Len(mCommandBuffers) = Len(mSwapChainImages)
       /\ \A j \in 1..Len(mSwapChainImages) :
             /\ mSwapChainImages[j].g = gen
             /\ CurrentObject(mSwapChainImageViews[j])
             /\ refs[mSwapChainImageViews[j]] = { mSwapChainImages[j] }
             /\ CurrentObject(mSwapChainFramebuffers[j])
             /\ refs[mSwapChainFramebuffers[j]] = { mSwapChainImageViews[j], obj["mRenderPass"] }
             /\ mCommandBuffers[j] = Recorded(j)

(***************************************************************************)
(* C11: after initVulkan and after every completed recreateSwapChain the   *)
(* image views, the framebuffers and the command buffers are as many as    *)
(* the swap chain images; view j is created for image j, framebuffer j     *)
(* names view j and command buffer j is recorded against framebuffer j;    *)
(* the index a frame acquired is an index of all of them.                  *)
(***************************************************************************)
BundleBuilt ==
    pc \in { "mainLoop", "glfwPollEvents", "updateUniformBuffer", "finalWaitIdle", "return" }
              \cup FrameCalls

C11_BundleArrays ==
    BundleBuilt =>
       LET n == Len(mSwapChainImages) IN
         /\ n >= 1
         /\ Len(mSwapChainImageViews) = n
         /\ Len(mSwapChainFramebuffers) = n
         /\ Len(mCommandBuffers) = n
         /\ \A j \in 1..n :
              /\ mSwapChainImageViews[j] \in DOMAIN refs
              /\ refs[mSwapChainImageViews[j]] = { mSwapChainImages[j] }
              /\ mSwapChainFramebuffers[j] \in DOMAIN refs
              /\ mSwapChainImageViews[j] \in refs[mSwapChainFramebuffers[j]]
              /\ mCommandBuffers[j].fb = mSwapChainFramebuffers[j]
         /\ (pc \in { "vkQueueSubmit", "vkQueuePresentKHR" }) => imageIndex \in 1..n
         /\ (pc = "mainLoop" /\ presRes = "VK_SUCCESS") => presented \in 1..n

\* a frame acquired the last image after a rebuild that changed the image count
C11_Witness ==
    /\ pc = "vkQueueSubmit"
    /\ gen = 2
    /\ Len(mSwapChainImages) = 2
    /\ imageIndex = 2
    /\ Handle("mSwapChainImageViews", 3, 1) \in DOMAIN relCount

(***************************************************************************)
(* C12: in a frame the calls are the acquire, the submission and the       *)
(* present, in that order and for the same image index; the submission     *)
(* carries the command buffer of that index, waits for the semaphore the   *)
(* acquire of this frame signals and signals the render-finished           *)
(* semaphore; the present waits for the semaphore the submission signals.  *)
(* The present about to be issued is built from the index and the          *)
(* semaphores of the two calls before it, whatever its result will be.     *)
(***************************************************************************)
FrameOrder == << "vkAcquireNextImageKHR", "vkQueueSubmit", "vkQueuePresentKHR" >>

C12_FrameOrder ==
    /\ Len(sync) <= 3
    /\ \A k \in 1..Len(sync) : sync[k].op = FrameOrder[k] /\ sync[k].index = sync[1].index
    /\ Len(sync) >= 1 =>
          /\ sync[1].signal = { obj["mImageAvailableSemaphore"] }
          /\ NonNull(obj["mImageAvailableSemaphore"])
    /\ Len(sync) >= 2 =>
          /\ sync[2].wait = sync[1].signal
          /\ sync[2].signal = { obj["mRenderFinishedSemaphore"] }
          /\ NonNull(obj["mRenderFinishedSemaphore"])
          /\ sync[2].signal \cap sync[2].wait = {}
          /\ sync[2].cmd = mCommandBuffers[sync[1].index]
    /\ Len(sync) = 3 => sync[3].wait = sync[2].signal
    /\ pc = "vkQueueSubmit" => Len(sync) = 1 /\ sync[1].index = imageIndex
    /\ pc = "vkQueuePresentKHR" =>
          /\ Len(sync) = 2
          /\ PresentInfo(imageIndex).index = sync[2].index
          /\ PresentInfo(imageIndex).wait = sync[2].signal
    /\ presented /= 0 => Len(sync) = 3 /\ sync[3].index = presented

\* a frame on a rebuilt swap chain has presented its second image
C12_Witness ==
    /\ pc = "mainLoop"
    /\ gen = 2
    /\ Len(sync) = 3
    /\ sync[3].index = 2
    /\ presRes = "VK_SUCCESS"

(***************************************************************************)
(* C13: when a rebuild reaches the creation of the new swap chain, it has  *)
(* released neither the previous swap chain nor any of the image views and *)
(* framebuffers.  A successful creation names the previous swap chain as   *)
(* oldSwapchain and only then releases it, once, the views and the         *)
(* framebuffers still unreleased; a failed creation releases nothing and   *)
(* leaves every Deleter as it was.                                         *)
(***************************************************************************)
BundleHandles ==
    { obj["mSwapChain"] } \cup Range(mSwapChainImageViews) \cup Range(mSwapChainFramebuffers)

C13_OldChainReleasedAfterCreate ==
    [][(pc = "createSwapChain" /\ caller \in RebuildCallers) =>
          /\ NonNull(obj["mSwapChain"])
          /\ obj["mSwapChain"] \in live
          /\ \A h \in BundleHandles : NonNull(h) /\ relCount[h] = 0
          /\ pc' = "catch" =>
                /\ relCount' = relCount /\ live' = live /\ obj' = obj
                /\ UNCHANGED vecVars
          /\ pc' /= "catch" =>
                /\ obj'["mSwapChain"] /= obj["mSwapChain"]
                /\ refs'[obj'["mSwapChain"]] = { obj["mSwapChain"] }
                /\ relCount'[obj["mSwapChain"]] = 1
                /\ obj["mSwapChain"] \notin live'
                /\ obj'["mSwapChain"] \in live'
                /\ UNCHANGED vecVars
                /\ \A h \in BundleHandles \ { obj["mSwapChain"] } : relCount'[h] = 0
    ]_vars

\* a rebuild has created its swap chain and not yet touched the image views
C13_Witness ==
    /\ pc = "createImageViews"
    /\ caller \in RebuildCallers
    /\ gen = 2
    /\ refs[obj["mSwapChain"]] = { Handle("mSwapChain", 0, 1) }
    /\ relCount[Handle("mSwapChain", 0, 1)] = 1
    /\ \A j \in 1..Len(mSwapChainImageViews) :
          mSwapChainImageViews[j].g = 1 /\ relCount[mSwapChainImageViews[j]] = 0

(***************************************************************************)
(* C14: a cleanup of a Deleter leaves it unbound; a cleanup of an unbound  *)
(* Deleter, and so the second of two cleanups in succession (the           *)
(* destructor is a cleanup), calls no release function: two in succession  *)
(* leave what one leaves.                                                  *)
(***************************************************************************)
CleanupOps == { "cleanup", "destructor" }

C14_CleanupIdempotent ==
    unit.fn = "Deleter" =>
       /\ Cleanup(Cleanup(unit)) = Cleanup(unit)
       /\ \A k \in 1..Len(unit.trace) :
             unit.trace[k].op \in CleanupOps =>
                /\ unit.trace[k].after = VK_NULL_HANDLE
                /\ unit.trace[k].calls = (IF unit.trace[k].before = VK_NULL_HANDLE THEN 0 ELSE 1)
                /\ (k > 1 /\ unit.trace[k - 1].op \in CleanupOps) =>
                      /\ unit.trace[k].calls = 0
                      /\ unit.trace[k].before = VK_NULL_HANDLE

\* a bound Deleter was cleaned up twice and then destroyed
C14_Witness ==
    /\ unit.fn = "Deleter"
    /\ Len(unit.trace) = 4
    /\ unit.trace[1].result = "bound"
    /\ unit.trace[2].op = "cleanup" /\ unit.trace[2].calls = 1
    /\ unit.trace[3].op = "cleanup"
    /\ unit.trace[4].op = "destructor"
    /\ Len(unit.released) = 1

C16_FailedCreateUnbound ==
    unit.fn = "Deleter" =>
       /\ \A k \in 1..Len(unit.trace) :
             unit.trace[k].result = "failed" =>
                /\ unit.trace[k].after = VK_NULL_HANDLE
                /\ unit.thrown
                /\ \A m \in (k + 1)..Len(unit.trace) :
                      unit.trace[m].op = "destructor" /\ unit.trace[m].calls = 0
       /\ Range(unit.released) \subseteq { Handle("deleter", 0, i) : i \in 1..unit.made }
       /\ unit.thrown => unit.mObject = VK_NULL_HANDLE

\* a creation into a bound Deleter failed and the Deleter was destroyed
C16_Witness ==
    /\ unit.fn = "Deleter"
    /\ Len(unit.trace) = 3
    /\ unit.trace[1].result = "bound"
    /\ unit.trace[2].result = "failed"
    /\ unit.trace[3].op = "destructor"
    /\ unit.dead
    /\ unit.released = << Handle("deleter", 0, 1) >>

(***************************************************************************)
(* C17: createLogicalDevice requests one queue of every distinct family in *)
(* { graphicsFamily, presentFamily }: as many requests as distinct         *)
(* families, each family named by exactly one request, so that the family  *)
(* each of the two queues is fetched from was requested.                   *)
(***************************************************************************)
RequestedFamilies(out) ==
    { out.queueCreateInfos[k].queueFamilyIndex : k \in 1..Len(out.queueCreateInfos) }

C17_OneRequestPerFamily ==
    (unit.fn = "createLogicalDevice" /\ unit.done) =>
       /\ Len(unit.out.queueCreateInfos) = Cardinality(UniqueQueueFamilies(unit.in))
       /\ RequestedFamilies(unit.out) = UniqueQueueFamilies(unit.in)
       /\ \A k \in 1..Len(unit.out.queueCreateInfos) :
             unit.out.queueCreateInfos[k].queueCount = 1
       /\ unit.out.graphicsQueue \in RequestedFamilies(unit.out)
       /\ unit.out.presentQueue \in RequestedFamilies(unit.out)

(***************************************************************************)
(* C18: when the surface reports the 'any size' value as its current       *)
(* extent, the chosen extent is the pixel size the window has at that      *)
(* moment (width x height of the last resize, the created size before any) *)
(* clamped component-wise into [minImageExtent, maxImageExtent].           *)
(***************************************************************************)
Clamp(x, lo, hi) == Max(lo, Min(hi, x))

C18_ExtentFollowsWindow ==
    (unit.fn = "chooseSwapExtent" /\ unit.done
        /\ unit.in.capabilities.currentExtent.width = UINT32_MAX) =>
       LET c == unit.in.capabilities IN
         unit.out = Extent(Clamp(unit.in.window.width,
                                 c.minImageExtent.width, c.maxImageExtent.width),
                           Clamp(unit.in.window.height,
                                 c.minImageExtent.height, c.maxImageExtent.height))

(***************************************************************************)
(* C19: for a report with minImageExtent <= maxImageExtent in both         *)
(* components chooseSwapExtent returns, when currentExtent.width is the    *)
(* 'any size' value, an extent whose width and height lie within the       *)
(* reported bounds, and otherwise currentExtent unchanged.                 *)
(***************************************************************************)
C19_ExtentInBounds ==
    (unit.fn = "chooseSwapExtent" /\ unit.done) =>
       LET c == unit.in.capabilities IN
         (c.minImageExtent.width <= c.maxImageExtent.width
             /\ c.minImageExtent.height <= c.maxImageExtent.height) =>
            IF c.currentExtent.width = UINT32_MAX
            THEN /\ c.minImageExtent.width <= unit.out.width
                 /\ unit.out.width <= c.maxImageExtent.width
                 /\ c.minImageExtent.height <= unit.out.height
                 /\ unit.out.height <= c.maxImageExtent.height
            ELSE unit.out = c.currentExtent

\* the window size was clamped down in one component and up in the other
C19_Witness ==
    /\ unit.fn = "chooseSwapExtent" /\ unit.done
    /\ unit.in.capabilities.currentExtent.width = UINT32_MAX
    /\ unit.in.capabilities.maxImageExtent.width = 640
    /\ unit.in.capabilities.minImageExtent.height = 768
    /\ unit.out = Extent(640, 768)

(***************************************************************************)
(* C20 as stated: for every report with minImageCount <= maxImageCount or  *)
(* maxImageCount = 0 the requested image count is minImageCount + 1 when   *)
(* maxImageCount is 0 or minImageCount + 1 <= maxImageCount, and           *)
(* maxImageCount otherwise, and it is at least minImageCount and, when     *)
(* maxImageCount is not 0, at most maxImageCount.                          *)
(***************************************************************************)
CountAsSpecified(c) ==
    /\ unit.out = IF c.maxImageCount = 0 \/ c.minImageCount + 1 <= c.maxImageCount
                  THEN c.minImageCount + 1 ELSE c.maxImageCount
    /\ c.minImageCount <= unit.out
    /\ c.maxImageCount = 0 \/ unit.out <= c.maxImageCount

C20_ImageCount ==
    (unit.fn = "imageCount" /\ unit.done) => CountAsSpecified(unit.in)

(***************************************************************************)
(* C20, as the code has it: the same, for the reports whose minImageCount  *)
(* is below the largest unsigned value (minImageCount + 1 does not wrap).  *)
(***************************************************************************)
C20_ImageCountNoWrap ==
    (unit.fn = "imageCount" /\ unit.done /\ unit.in.minImageCount < UINT32_MAX) =>
       CountAsSpecified(unit.in)

\* the count was capped by maxImageCount
C20_Witness ==
    /\ unit.fn = "imageCount" /\ unit.done
    /\ unit.in.minImageCount = 3 /\ unit.in.maxImageCount = 3
    /\ unit.out = 3

(***************************************************************************)
(* C21: for a non-empty list chooseSwapSurfaceFormat returns the preferred *)
(* pair (B8G8R8A8_UNORM, SRGB_NONLINEAR) when the list is one entry of     *)
(* format UNDEFINED; else the preferred pair when the list has it at any   *)
(* position; else the first entry.                                         *)
(***************************************************************************)
C21_SurfaceFormat ==
    (unit.fn = "chooseSwapSurfaceFormat" /\ unit.done) =>
       /\ Len(unit.in) >= 1
       /\ unit.out =
            IF Len(unit.in) = 1 /\ unit.in[1].format = "VK_FORMAT_UNDEFINED"
            THEN PreferredFormat
            ELSE IF PreferredFormat \in Range(unit.in) THEN PreferredFormat
            ELSE unit.in[1]

\* the preferred pair was found behind another entry
C21_Witness ==
    /\ unit.fn = "chooseSwapSurfaceFormat" /\ unit.done
    /\ Len(unit.in) = 2
    /\ unit.in[1] = SurfaceFormat("VK_FORMAT_R8G8B8A8_UNORM", "VK_COLOR_SPACE_SRGB_NONLINEAR_KHR")
    /\ unit.in[2] = PreferredFormat
    /\ unit.out = PreferredFormat

(***************************************************************************)
(* C22: chooseSwapPresentMode returns MAILBOX when MAILBOX is in the list, *)
(* at whatever position, and FIFO for every list without MAILBOX.          *)
(***************************************************************************)
C22_PresentMode ==
    (unit.fn = "chooseSwapPresentMode" /\ unit.done) =>
       unit.out = IF "VK_PRESENT_MODE_MAILBOX_KHR" \in Range(unit.in)
                  THEN "VK_PRESENT_MODE_MAILBOX_KHR"
                  ELSE "VK_PRESENT_MODE_FIFO_KHR"

\* MAILBOX was found behind FIFO
C22_Witness ==
    /\ unit.fn = "chooseSwapPresentMode" /\ unit.done
    /\ unit.in = << "VK_PRESENT_MODE_FIFO_KHR", "VK_PRESENT_MODE_MAILBOX_KHR" >>
    /\ unit.out = "VK_PRESENT_MODE_MAILBOX_KHR"

\* the four requirements on an adapter, a family counting when it has queues
HasFamily(device, Supports(_)) ==
    \E j \in 1..Len(device.queueFamilies) :
       device.queueFamilies[j].queueCount > 0 /\ Supports(device.queueFamilies[j])

GraphicsCapable(queueFamily) == "VK_QUEUE_GRAPHICS_BIT" \in queueFamily.queueFlags

PresentCapable(queueFamily) == queueFamily.presentSupport

MeetsAllFour(device) ==
    /\ HasFamily(device, GraphicsCapable)
    /\ HasFamily(device, PresentCapable)
    /\ mDeviceExtensions \subseteq device.extensions
    /\ Len(device.formats) >= 1 /\ Len(device.presentModes) >= 1

C29_IndicesResolved ==
    (unit.fn = "pickPhysicalDevice" /\ unit.done /\ unit.out.picked /\ unit.out.mPhysicalDevice # 0) =>
       /\ unit.out.indices.graphicsFamily >= 0
       /\ unit.out.indices.presentFamily >= 0
       /\ unit.out.indices = unit.out.suitable
       /\ IsComplete(unit.out.suitable)

\* the device was created on an adapter whose two families differ
C29_Witness ==
    /\ unit.fn = "pickPhysicalDevice" /\ unit.done /\ unit.out.mDevice
    /\ unit.in = << Capable(<< PresentOnly, GraphicsOnly >>) >>
    /\ unit.out.indices = [graphicsFamily |-> 1, presentFamily |-> 0]

(***************************************************************************)
(* C27: the swap chain images are created in concurrent mode, naming the   *)
(* graphics and the present family, exactly when the two indices differ,   *)
(* and in exclusive mode exactly when they are equal.                      *)
(***************************************************************************)
C27_SharingMode ==
    (unit.fn = "sharingMode" /\ unit.done) =>
       /\ unit.out.imageSharingMode \in { "VK_SHARING_MODE_CONCURRENT", "VK_SHARING_MODE_EXCLUSIVE" }
       /\ (unit.out.imageSharingMode = "VK_SHARING_MODE_CONCURRENT")
             <=> (unit.in.graphicsFamily # unit.in.presentFamily)
       /\ (unit.out.imageSharingMode = "VK_SHARING_MODE_EXCLUSIVE")
             <=> (unit.in.graphicsFamily = unit.in.presentFamily)
       /\ (unit.out.imageSharingMode = "VK_SHARING_MODE_CONCURRENT") =>
             /\ unit.out.queueFamilyIndexCount = 2
             /\ unit.out.pQueueFamilyIndices = << unit.in.graphicsFamily, unit.in.presentFamily >>

\* two different families are shared by the images
C27_Witness ==
    /\ unit.fn = "sharingMode" /\ unit.done
    /\ unit.in = [graphicsFamily |-> 0, presentFamily |-> 1]
    /\ unit.out.imageSharingMode = "VK_SHARING_MODE_CONCURRENT"
    /\ unit.out.pQueueFamilyIndices = << 0, 1 >>

\* what the claim compares of a build
BundleShape(built) ==
    [images |-> built.images, format |-> built.mSwapChainImageFormat,
     extent |-> built.mSwapChainExtent]

Throwing ==
    Range(InitOrder) \cup Range(RebuildOrder)
       \cup { "vkAcquireNextImageKHR", "vkQueueSubmit", "vkQueuePresentKHR" }

Ended == { "catch", "done", "crashed" }

CommandBuffersBuilt == pc = "createCommandBuffers" /\ pc' \notin { "catch", "crashed" }

(***************************************************************************)
(* C25: command buffers are allocated and recorded only by                 *)
(* createCommandBuffers, in initVulkan and in a rebuild, never by          *)
(* drawFrame, which submits the buffer recorded at the index of the image  *)
(* it acquired; each run of createCommandBuffers frees every buffer        *)
(* allocated before and records exactly one new buffer per framebuffer of  *)
(* the bundle just built, against that framebuffer.                        *)
(***************************************************************************)
C25_RecordedInBuildsOnly ==
    [][ /\ (mCommandBuffers' # mCommandBuffers \/ allocated' # allocated) =>
              \/ pc = "createCommandBuffers" /\ caller \in { "init", "resize", "acquire", "present" }
              \/ pc \in { "catch", "return" }
        /\ (pc = "vkQueueSubmit" /\ pc' = "vkQueuePresentKHR") =>
              /\ submitted' = mCommandBuffers[imageIndex]
              /\ submitted'.g = gen
        /\ CommandBuffersBuilt =>
              /\ allocated' \cap allocated = {}
              /\ allocated' = { CommandBuffer(j, gen) : j \in 1..Len(mSwapChainFramebuffers) }
              /\ Len(mCommandBuffers') = Len(mSwapChainFramebuffers)
              /\ \A j \in 1..Len(mCommandBuffers') :
                    /\ mCommandBuffers'[j].fb = mSwapChainFramebuffers[j]
                    /\ mCommandBuffers'[j].fb.g = gen
                    /\ mCommandBuffers'[j].g = gen
      ]_vars

\* after a rebuild only the two buffers of the second bundle are allocated,
\* and the second of them was submitted
C25_Witness ==
    /\ gen = 2
    /\ pc = "vkQueuePresentKHR"
    /\ allocated = { CommandBuffer(1, 2), CommandBuffer(2, 2) }
    /\ submitted = mCommandBuffers[2]

\* the rebuild the size callback started has run this far
ResizeRebuild(k) ==
    /\ caller = "resize"
    /\ lastEvent = "resize"
    /\ steps = SubSeq(RebuildOrder, 1, k)

(***************************************************************************)
(* C26: a size callback with a width and a height other than 0 starts      *)
(* recreateSwapChain, the procedure an outdated surface starts, and that   *)
(* rebuild has run all its steps when glfwPollEvents returns, which is     *)
(* before drawFrame acquires the next image.                               *)
(***************************************************************************)
C26_ResizeRebuilds ==
    [][ /\ (pc = "glfwPollEvents" /\ lastEvent' = "resize" /\ pc' \notin Ended) =>
              \/ pc' = RebuildOrder[1] /\ caller' = "resize" /\ steps' = << >> /\ gen' = gen
              \/ UNCHANGED << pc, caller, steps, gen >>
        /\ (caller = "resize" /\ pc \in Range(RebuildOrder)) =>
              /\ \E k \in 0..(Len(RebuildOrder) - 1) : ResizeRebuild(k) /\ pc = RebuildOrder[k + 1]
              /\ \E k \in { Len(steps) + 1 } :
                    \/ pc' \in Ended
                    \/ k < Len(RebuildOrder) /\ ResizeRebuild(k)' /\ pc' = RebuildOrder[k + 1]
                    \/ k = Len(RebuildOrder) /\ ResizeRebuild(k)' /\ pc' = "glfwPollEvents"
        /\ (pc = "glfwPollEvents" /\ lastEvent = "resize") =>
              ResizeRebuild(Len(RebuildOrder))
        /\ (pc' = "vkAcquireNextImageKHR") => (caller' = "none" /\ steps' = << >>)
      ]_vars

\* the rebuild started by the size callback is complete and the poll goes on
C26_Witness ==
    /\ pc = "glfwPollEvents"
    /\ ResizeRebuild(Len(RebuildOrder))
    /\ Len(mSwapChainFramebuffers) = MaxImages
    /\ allocated = { CommandBuffer(j, 2) : j \in 1..MaxImages }
    /\ inFlight = {}

\* what the loop test of mainLoop saw
LoopEntered == pc = "mainLoop" /\ pc' = "glfwPollEvents"

LoopLeft == pc = "mainLoop" /\ pc' = "finalWaitIdle"

\* run() is past its loop
AfterLoop == { "finalWaitIdle", "return" }

C30_LoopTest ==
    [][ /\ (pc = "mainLoop") => (LoopEntered \/ LoopLeft)
        /\ LoopEntered <=> (pc = "mainLoop" /\ ~shouldClose)
        /\ LoopLeft <=> (pc = "mainLoop" /\ shouldClose)
        /\ (pc' \in FrameCalls \cup { "glfwPollEvents", "updateUniformBuffer" }) =>
              (pc \notin AfterLoop \cup Ended)
        /\ (pc \in AfterLoop) =>
              /\ pc' \in AfterLoop \cup { "done", "crashed" }
              /\ sync' = << >> /\ stderr' = << >>
        /\ (pc = "finalWaitIdle") => (pc' = "return" /\ inFlight' = {})
        /\ (pc = "return" /\ pc' = "done") => (exitCode' = 0)
      ]_vars

(***************************************************************************)
(* C30: the loop starts another frame exactly when the window-close flag   *)
(* is not set at the loop test; once it is seen set no image is acquired,  *)
(* submitted or presented any more, the device is waited idle and the      *)
(* program ends.                                                           *)
(***************************************************************************)
C30_CloseTerminates ==
    /\ C30_LoopTest
    /\ (pc = "mainLoop" /\ shouldClose) ~> (pc \in { "done", "crashed" })
    /\ (pc = "finalWaitIdle") ~> (pc = "return" /\ inFlight = {})

\* after a rebuild the close flag was seen set at the loop test, and the
\* program has ended with status 0
C30_Witness ==
    /\ pc = "done"
    /\ exitCode = 0
    /\ gen = 2
    /\ stderr = << >>
    /\ inFlight = {}

\* family number i (from 0) of the list has queues and the capability
GraphicsFamily(queueFamilies, i) ==
    /\ i \in 0..(Len(queueFamilies) - 1)
    /\ queueFamilies[i + 1].queueCount > 0
    /\ GraphicsCapable(queueFamilies[i + 1])

PresentFamily(queueFamilies, i) ==
    /\ i \in 0..(Len(queueFamilies) - 1)
    /\ queueFamilies[i + 1].queueCount > 0
    /\ PresentCapable(queueFamilies[i + 1])

\* both capabilities are found among the families 0..k
BothWithin(queueFamilies, k) ==
    /\ \E i \in 0..k : GraphicsFamily(queueFamilies, i)
    /\ \E i \in 0..k : PresentFamily(queueFamilies, i)

(***************************************************************************)
(* C36: findQueueFamilies returns both indices resolved exactly when some  *)
(* family with queues has the graphics bit and some family with queues     *)
(* has present support; a resolved index names a family with that          *)
(* capability; and the scan looks at the families up to the first number   *)
(* at which both are resolved and no further.                              *)
(***************************************************************************)
C36_FindQueueFamilies ==
    (unit.fn = "findQueueFamilies" /\ unit.done) =>
       LET q == unit.in
           r == unit.out.indices
           n == Len(q)
       IN /\ IsComplete(r) <=> BothWithin(q, n - 1)
          /\ r.graphicsFamily \in -1..(n - 1) /\ r.presentFamily \in -1..(n - 1)
          /\ (r.graphicsFamily >= 0) => GraphicsFamily(q, r.graphicsFamily)
          /\ (r.presentFamily >= 0) => PresentFamily(q, r.presentFamily)
          /\ (r.graphicsFamily = -1) => ~\E i \in 0..(n - 1) : GraphicsFamily(q, i)
          /\ (r.presentFamily = -1) => ~\E i \in 0..(n - 1) : PresentFamily(q, i)
          /\ \E last \in -1..(n - 1) :
                /\ unit.out.queried = [j \in 1..(last + 1) |-> j - 1]
                /\ \A k \in 0..(last - 1) : ~BothWithin(q, k)
                /\ (last < n - 1) => BothWithin(q, last)
          /\ r = FindQueueFamilies(PhysicalDevice(q, { }, << >>, << >>))

\* both were resolved at the second of three families and the third was
\* not looked at
C36_Witness ==
    /\ unit.fn = "findQueueFamilies" /\ unit.done
    /\ unit.in = << GraphicsOnly, PresentOnly, GraphicsPresent >>
    /\ unit.out.indices = [graphicsFamily |-> 0, presentFamily |-> 1]
    /\ unit.out.queried = << 0, 1 >>

(***************************************************************************)
(* C32: checkValidationLayerSupport returns true exactly when every        *)
(* requested layer name equals the name of some available layer;           *)
(* createInstance throws when validation is enabled and it returned false. *)
(***************************************************************************)
C32_LayerSupport ==
    (unit.fn = "checkValidationLayerSupport" /\ unit.done) =>
       /\ unit.out.supported <=>
             \A n \in 1..Len(mValidationLayers) :
                \E j \in 1..Len(unit.in.availableLayers) :
                   unit.in.availableLayers[j].layerName = mValidationLayers[n]
       /\ (unit.out.thrown # "") <=> (unit.in.mEnableValidationLayers /\ ~unit.out.supported)

(***************************************************************************)
(* C33: on every exit path the swap chain and the surface are released     *)
(* before the window is destroyed and the windowing library is shut down.  *)
(***************************************************************************)
C33_WindowDestroyedLast ==
    \A w \in 1..Len(destroyed) :
       (destroyed[w] = WindowH) =>
          \A j \in 1..Len(destroyed) :
             (destroyed[j].k \in { "mSurface", "mSwapChain" }) => (j < w)

\* the swap chain, the views, the render pass, the pipeline, the
\* framebuffers and the command buffers, with what exists on the Vulkan side
renderingState ==
    << obj, mSwapChainImages, mSwapChainImageViews, viewsCap, mSwapChainFramebuffers,
       fbsCap, mCommandBuffers, allocated, gen, live, relCount, refs, inFlight >>

(***************************************************************************)
(* C35: a size callback with width 0 or height 0 starts no rebuild and     *)
(* leaves the swap chain, the views, the pipeline, the framebuffers and    *)
(* the command buffers as they are.                                        *)
(***************************************************************************)
C35_ZeroResizeIgnored ==
    [][ (lastEvent' = "resizeZero") =>
           /\ pc = "glfwPollEvents"
           /\ UNCHANGED << pc, caller, steps >>
           /\ UNCHANGED renderingState
      ]_vars

\* a zero size arrived after a rebuild; the second bundle is still in place
C35_Witness ==
    /\ lastEvent = "resizeZero"
    /\ pc = "glfwPollEvents"
    /\ gen = 2
    /\ obj["mSwapChain"] = Handle("mSwapChain", 0, 2)
    /\ Len(mCommandBuffers) = 2

(***************************************************************************)
(* C34: an image is acquired only right after updateUniformBuffer, whose   *)
(* vkQueueWaitIdle has left the graphics queue idle; so no earlier draw is *)
(* pending on that queue when a frame acquires and when it submits, and at *)
(* most one draw submission is pending at any time.                        *)
(***************************************************************************)
C34_GraphicsIdleBeforeAcquire ==
    [][ /\ (pc' = "vkAcquireNextImageKHR") =>
              (pc = "updateUniformBuffer" /\ "graphics" \notin inFlight')
        /\ (pc = "vkAcquireNextImageKHR") => ("graphics" \notin inFlight)
        /\ (pc = "vkQueueSubmit") => ("graphics" \notin inFlight)
        /\ ("graphics" \in inFlight' /\ "graphics" \notin inFlight) =>
              (pc = "vkQueueSubmit" /\ pc' = "vkQueuePresentKHR")
      ]_vars

\* the draw of the previous frame was submitted and presented; the wait has
\* emptied the graphics queue and the next frame is about to acquire
C34_Witness ==
    /\ pc = "vkAcquireNextImageKHR"
    /\ "present" \in inFlight
    /\ "graphics" \notin inFlight
    /\ gen = 1

(***************************************************************************)
(* C31: the two semaphores are reused safely across frames.  An acquire    *)
(* that returns an image signals mImageAvailableSemaphore only when no     *)
(* earlier signal is unconsumed, and the call that follows it is the one   *)
(* submit of the frame, which waits for that signal; the submit signals    *)
(* mRenderFinishedSemaphore only when no earlier signal of it is           *)
(* unconsumed, and the call that follows it is the one present of the      *)
(* frame, which waits for that signal.  A submit that fails ends the       *)
(* program: no acquire follows it.                                         *)
(***************************************************************************)
ImageAvailable == obj["mImageAvailableSemaphore"]
RenderFinished == obj["mRenderFinishedSemaphore"]

C31_SemaphoresReusedSafely ==
    [][ /\ (pc = "vkAcquireNextImageKHR" /\ pc' = "vkQueueSubmit") =>
              /\ signaled = {}
              /\ sync'[1].signal = { ImageAvailable }
              /\ signaled' = { ImageAvailable }
        /\ (pc = "vkAcquireNextImageKHR" /\ pc' # "vkQueueSubmit") =>
              /\ signaled = {}
              /\ UNCHANGED signaled
        /\ (pc = "vkQueueSubmit") =>
              /\ signaled = { ImageAvailable }
              /\ pc' \in { "vkQueuePresentKHR", "catch" }
              /\ (pc' = "catch") => UNCHANGED signaled
              /\ (pc' = "vkQueuePresentKHR") =>
                    /\ sync'[2].wait = { ImageAvailable }
                    /\ sync'[2].signal = { RenderFinished }
                    /\ signaled' = { RenderFinished }
        /\ (pc = "vkQueuePresentKHR") =>
              /\ signaled = { RenderFinished }
              /\ PresentInfo(imageIndex).wait = { RenderFinished }
              /\ pc' # "vkQueueSubmit"
              /\ signaled' = {}
        /\ (signaled' # signaled) =>
              pc \in { "vkAcquireNextImageKHR", "vkQueueSubmit", "vkQueuePresentKHR",
                       "return", "catch" }
        /\ ImageAvailable # RenderFinished \/ ImageAvailable = VK_NULL_HANDLE ]_vars

\* a later frame, on a rebuilt swap chain, has acquired and submitted: the
\* signal of its submit is the only one pending
C31_Witness ==
    /\ pc = "vkQueuePresentKHR"
    /\ signaled = { RenderFinished }
    /\ "present" \in inFlight
    /\ gen = 2

====
